---- MODULE Spec2Model ----
(***************************************************************************)
(* Job pipeline and asynchronous completion reconciliation of the          *)
(* video-montage repository.                                               *)
(*                                                                         *)
(* Spec       : the local workers.  process_video (src/app/main.py) over   *)
(*              the in-memory registry video_tasks, and the Celery runs    *)
(*              _process_video_async, _process_circle_video_async and      *)
(*              _process_overlay_video_async (src/montage/app/tasks.py)    *)
(*              over the Redis status store, both driving                  *)
(*              VideoProcessor (src/app/video_processor.py).               *)
(* SpecAvatar : the avatar service: motion_cache and final_montages rows,  *)
(*              the webhook handle_callback and the poller                 *)
(*              monitor_montage_task.                                      *)
(***************************************************************************)
EXTENDS Integers, Sequences, FiniteSets, TLC

(***************************************************************************)
(* Bounds of the model.                                                    *)
(***************************************************************************)
\* Largest number of source URLs in one merge request (the code allows 20).
MaxUrls == 2

\* Job ids handed out by uuid4(): each id is used for one job only.  The
\* request of v1 ranges over the whole request space and over the four
\* workers; v2 is a concurrent job of another caller of the app and carries
\* the smallest merge request (one URL, no subtitles, no music).
VideoIds == {"v1", "v2"}

FullIds == {"v1"}

\* Size limit of the in-memory registry.  The program's value is 1000; the
\* model keeps the eviction loop and scales the limit so that eviction is
\* reachable with the ids above.
MAX_STORAGE_ITEMS == 1

None == "None"

(***************************************************************************)
(* Python dict helpers.                                                    *)
(***************************************************************************)
\* d[k] = v on a dict keyed by job id
Put(store, k, rec) ==
    [x \in (DOMAIN store) \cup {k} |-> IF x = k THEN rec ELSE store[x]]

\* d.pop(k)
Drop(store, k) == [x \in (DOMAIN store) \ {k} |-> store[x]]

\* dict.update: the fields of data replace or extend those of cur
DictUpdate(cur, data) ==
    [f \in (DOMAIN cur) \cup (DOMAIN data) |->
        IF f \in DOMAIN data THEN data[f] ELSE cur[f]]

\* seq without its elements equal to x
SeqWithout(s, x) == SelectSeq(s, LAMBDA y : y # x)

(***************************************************************************)
(* Error messages.  A message is the chain of texts from the outermost     *)
(* prefix to the root cause: f"Error processing video: {str(e)}" prepends  *)
(* a text to the message of e.                                             *)
(***************************************************************************)
Wrap(prefix, msg) == <<prefix>> \o msg

CauseOf(msg) == msg[Len(msg)]

(***************************************************************************)
(* Files of a working directory.                                           *)
(***************************************************************************)
F(name) == [name |-> name, n |-> 0]

\* os.path.join(self.work_dir, f"video_{i+1}.mp4")
VideoFile(i) == [name |-> "video", n |-> i]

NoDir == [exists |-> FALSE, files |-> {}]

VARIABLES
    video_tasks,     \* app: OrderedDict video_id -> status record
    task_order,      \* app: insertion order of the keys of video_tasks
    redis,           \* montage: key task:{video_id} -> status record
    req,             \* the request a job was enqueued with
    worker,          \* per job: position and locals of its worker run
    work_dir,        \* per job: the task directory and the files in it
    persistent_dir,  \* app: PERSISTENT_DIR, file name -> job that wrote it
    minio,           \* montage: objects of the videos bucket
    motion_cache,    \* avatar: rows of motion_cache
    final_montages,  \* avatar: rows of final_montages
    provider,        \* avatar: remote jobs of the AI provider
    monitor,         \* avatar: monitor_montage_task runs
    unmatched,       \* avatar: taskIds of the provider whose notice led to
                     \* an update that matched no row
    motion_call,     \* avatar: per call of POST /motions, its position and
                     \* what it has done
    writer,          \* per caller of update_status: its position between
                     \* redis_client.get and redis_client.set, and its locals
    subtitles_data,  \* the cues create_ass_karaoke_subtitles was called with
    ass_content,     \* the dialogue lines it wrote
    geq              \* the pixel the mask expression was last evaluated at

localVars == <<video_tasks, task_order, redis, req, worker, work_dir,
               persistent_dir, minio>>
avatarVars == <<motion_cache, final_montages, provider, monitor, unmatched,
                motion_call>>
functionVars == <<subtitles_data, ass_content, geq>>
vars == <<video_tasks, task_order, redis, req, worker, work_dir,
          persistent_dir, minio, motion_cache, final_montages, provider,
          monitor, unmatched, motion_call, writer, subtitles_data,
          ass_content, geq>>

Kinds == {"app", "merge", "circle", "overlay"}

Terminal == {"completed", "failed"}

Ended == {"returned", "raised"}

IdleWorker ==
    [pc |-> "unused", kind |-> None, i |-> 0, downloaded_videos |-> <<>>,
     concat_list |-> <<>>, current_video |-> None, music_path |-> FALSE,
     stage |-> None, failed_at |-> None, output_file |-> None,
     subtitle_burn |-> None, subtitle_filter |-> None, durations |-> <<>>]

NoReq == [n_urls |-> 0, subtitles |-> FALSE, karaoke_mode |-> FALSE,
          music |-> FALSE, output_filename |-> None]

\* The record of job j in the store its worker writes, if any.
HasRecord(j) ==
    IF worker[j].kind = "app" THEN j \in DOMAIN video_tasks
    ELSE j \in DOMAIN redis

Record(j) == IF worker[j].kind = "app" THEN video_tasks[j] ELSE redis[j]


(***************************************************************************)
(* Status stores.                                                          *)
(***************************************************************************)
\* tasks.update_status of the montage worker: merge into the stored record,
\* or store data alone when the key is absent
update_status(store, video_id, data) ==
    IF video_id \in DOMAIN store
    THEN Put(store, video_id, DictUpdate(store[video_id], data))
    ELSE Put(store, video_id, data)

\* an eviction loop that pops the newest record: popitem(last=True)
RECURSIVE EvictNewest(_)
EvictNewest(order) ==
    IF Len(order) > MAX_STORAGE_ITEMS
    THEN EvictNewest(SubSeq(order, 1, Len(order) - 1)) ELSE order

\* while len(video_tasks) > MAX_STORAGE_ITEMS: video_tasks.popitem(last=False)
RECURSIVE EvictOldest(_)
EvictOldest(order) ==
    IF Len(order) > MAX_STORAGE_ITEMS THEN EvictOldest(Tail(order)) ELSE order

Range(s) == {s[k] : k \in DOMAIN s}

InitialStatus(j) ==
    [video_id |-> j, status |-> "processing", created_at |-> TRUE,
     progress |-> 0]

(***************************************************************************)
(* Enqueue.                                                                *)
(***************************************************************************)
\* POST /merge-videos of the app: the task directory, the music download,
\* the initial record, the eviction loop and the background task.  A failed
\* music download removes the directory again and creates nothing.
MergeRequests(j) ==
    IF j \in FullIds
    THEN [n_urls : 0..MaxUrls, subtitles : BOOLEAN, karaoke_mode : BOOLEAN,
          music : BOOLEAN, output_filename : {"output.mp4"}]
    ELSE {[n_urls |-> 1, subtitles |-> FALSE, karaoke_mode |-> FALSE,
           music |-> FALSE, output_filename |-> "output.mp4"]}

merge_videos_endpoint(j) ==
    /\ worker[j].pc = "unused"
    /\ \E r \in MergeRequests(j) :
         /\ req' = [req EXCEPT ![j] = r]
         /\ work_dir' = [work_dir EXCEPT ![j] =
                [exists |-> TRUE,
                 files |-> IF r.music THEN {F("music")} ELSE {}]]
         /\ worker' = [worker EXCEPT ![j] =
                DictUpdate(@, [pc |-> "queued", kind |-> "app",
                               music_path |-> r.music])]
    /\ LET order == EvictOldest(Append(task_order, j))
           all == Put(video_tasks, j, InitialStatus(j))
       IN  /\ task_order' = order
           /\ video_tasks' = [x \in Range(order) |-> all[x]]
    /\ UNCHANGED <<redis, persistent_dir, minio>>
    /\ UNCHANGED <<avatarVars, writer, functionVars>>

\* The montage API's dispatch of a Celery task: the initial record in Redis
\* and the queued task.
enqueue_task(j) ==
    /\ worker[j].pc = "unused"
    /\ j \in FullIds
    /\ \E k \in Kinds \ {"app"} :
       \E r \in IF k = "merge" THEN MergeRequests(j) ELSE {NoReq} :
         /\ req' = [req EXCEPT ![j] = r]
         /\ worker' = [worker EXCEPT ![j] =
                DictUpdate(@, [pc |-> "queued", kind |-> k])]
    /\ redis' = Put(redis, j, InitialStatus(j))
    /\ UNCHANGED <<video_tasks, task_order, work_dir, persistent_dir, minio>>
    /\ UNCHANGED <<avatarVars, writer, functionVars>>

\* DELETE /video/{video_id} of the app
delete_video_task(j) ==
    /\ j \in DOMAIN video_tasks
    /\ work_dir' = IF "task_dir" \in DOMAIN video_tasks[j]
                   THEN [work_dir EXCEPT ![j] = NoDir]
                   ELSE work_dir
    /\ video_tasks' = Drop(video_tasks, j)
    /\ task_order' = SeqWithout(task_order, j)
    /\ UNCHANGED <<redis, req, worker, persistent_dir, minio>>
    /\ UNCHANGED <<avatarVars, writer, functionVars>>

(***************************************************************************)
(* Pieces shared by the worker runs.                                       *)
(***************************************************************************)
Frame(j, upd) == [worker EXCEPT ![j] = DictUpdate(@, upd)]

\* a tool or a write can succeed only in an existing directory that holds
\* its inputs
CanRun(j, inputs) == work_dir[j].exists /\ inputs \subseteq work_dir[j].files

AddFile(j, f) == [work_dir EXCEPT ![j].files = @ \cup {f}]

\* VideoProcessor.cleanup() and shutil.rmtree(task_dir, ignore_errors=True)
cleanup(j) == [work_dir EXCEPT ![j] = NoDir]

\* the progress_callback closures update_progress of the workers
progress_callback(j, p) ==
    IF worker[j].kind = "app"
    THEN /\ video_tasks' =
                IF j \in DOMAIN video_tasks
                THEN [video_tasks EXCEPT ![j] = DictUpdate(@, [progress |-> p])]
                ELSE video_tasks
         /\ UNCHANGED redis
    ELSE /\ redis' = update_status(redis, j, [progress |-> p])
         /\ UNCHANGED video_tasks

FailedStatus(msg) ==
    [status |-> "failed", error_message |-> msg, completed_at |-> TRUE]

\* The except clause of process_video: the update raises KeyError when the
\* record is gone, and then nothing after it runs.
process_video_except(j, msg, upd) ==
    /\ IF j \in DOMAIN video_tasks
       THEN /\ video_tasks' =
                [video_tasks EXCEPT ![j] = DictUpdate(@, FailedStatus(msg))]
            /\ work_dir' = cleanup(j)
            /\ worker' = Frame(j, DictUpdate(upd, [pc |-> "returned"]))
       ELSE /\ UNCHANGED <<video_tasks, work_dir>>
            /\ worker' = Frame(j, DictUpdate(upd, [pc |-> "raised"]))
    /\ UNCHANGED redis

\* The except and finally clauses of the _process_*_async runs.
process_async_except(j, msg, upd) ==
    /\ redis' = update_status(redis, j, FailedStatus(msg))
    /\ work_dir' = cleanup(j)
    /\ worker' = Frame(j, DictUpdate(upd, [pc |-> "raised"]))
    /\ UNCHANGED video_tasks

\* worker_except with the failure logged and the run going on, the way the
\* burn-in failure is handled
worker_except_continue(j, msg, st) ==
    /\ worker' = Frame(j, [failed_at |-> st])
    /\ UNCHANGED <<video_tasks, redis, work_dir>>

\* An exception with message msg reaches the worker's try block while the
\* run is in stage st.
worker_except(j, msg, st) ==
    IF worker[j].kind = "app"
    THEN process_video_except(j, msg, [failed_at |-> st, stage |-> st])
    ELSE process_async_except(j, msg, [failed_at |-> st, stage |-> st])

\* except Exception as e: raise HTTPException(500, f"Error processing video: ...")
ProcessingError(msg) == Wrap("Error processing video", msg)


(***************************************************************************)
(* Start of a worker run.                                                  *)
(***************************************************************************)
makedirs(j) == [work_dir EXCEPT ![j].exists = TRUE]

\* process_video up to the call of merge_videos.  VideoProcessor(task_dir)
\* is built before the try block and raises when no ffmpeg is found.
process_video(j) ==
    /\ worker[j].pc = "queued"
    /\ worker[j].kind = "app"
    /\ work_dir' = makedirs(j)
    /\ \E ffmpeg_found \in BOOLEAN :
         IF ~ffmpeg_found
         THEN /\ worker' = Frame(j, [pc |-> "raised"])
              /\ UNCHANGED video_tasks
         ELSE IF j \in DOMAIN video_tasks
              THEN /\ video_tasks' = [video_tasks EXCEPT ![j] =
                        DictUpdate(@, [status |-> "processing", progress |-> 0,
                                       task_dir |-> TRUE])]
                   /\ worker' = Frame(j, [pc |-> "merge_videos"])
              ELSE \* KeyError in the try block and again in the except clause
                   /\ worker' = Frame(j, [pc |-> "raised"])
                   /\ UNCHANGED video_tasks
    /\ UNCHANGED <<task_order, redis, req, persistent_dir, minio>>
    /\ UNCHANGED <<avatarVars, writer, functionVars>>

\* process_task_start of a broker that delivers a task again after its run
\* raised (acks_late)
process_task_start_redelivered(j) ==
    /\ worker[j].pc \in {"queued", "raised"}
    /\ worker[j].kind \in {"merge", "circle", "overlay"}
    /\ work_dir' = makedirs(j)
    /\ \E built \in BOOLEAN :
         IF ~built
         THEN /\ worker' = Frame(j, [pc |-> "raised"])
              /\ UNCHANGED redis
         ELSE /\ redis' = update_status(redis, j,
                              [status |-> "processing", progress |-> 0])
              /\ worker' = Frame(j,
                    [failed_at |-> None,
                     pc |-> CASE worker[j].kind = "merge" ->
                                    IF req[j].music THEN "music"
                                    ELSE "merge_videos"
                              [] worker[j].kind = "circle" -> "circle_video"
                              [] OTHER -> "overlay_video"])
    /\ UNCHANGED <<video_tasks, task_order, req, persistent_dir, minio>>
    /\ UNCHANGED <<avatarVars, writer, functionVars>>

\* _process_video_async, _process_circle_video_async and
\* _process_overlay_video_async up to their first step.  StorageManager()
\* and VideoProcessor(task_dir) are built before the try block; the first
\* connects to the object store and raises when it is unreachable.
process_task_start(j) ==
    /\ worker[j].pc = "queued"
    /\ worker[j].kind \in {"merge", "circle", "overlay"}
    /\ work_dir' = makedirs(j)
    /\ \E built \in BOOLEAN :
         IF ~built
         THEN /\ worker' = Frame(j, [pc |-> "raised"])
              /\ UNCHANGED redis
         ELSE /\ redis' = update_status(redis, j,
                              [status |-> "processing", progress |-> 0])
              /\ worker' = Frame(j,
                    [pc |-> CASE worker[j].kind = "merge" ->
                                    IF req[j].music THEN "music"
                                    ELSE "merge_videos"
                              [] worker[j].kind = "circle" -> "circle_video"
                              [] OTHER -> "overlay_video"])
    /\ UNCHANGED <<video_tasks, task_order, req, persistent_dir, minio>>
    /\ UNCHANGED <<avatarVars, writer, functionVars>>

\* _process_video_async: the music download.  music_path is set before the
\* request; the file is written only on status 200.
download_music(j) ==
    /\ worker[j].pc = "music"
    /\ \E answer \in {"200", "404", "error"} :
         IF answer = "error"
         THEN worker_except(j, <<"music request failed">>, "music")
         ELSE /\ worker' = Frame(j, [pc |-> "merge_videos", music_path |-> TRUE,
                                     stage |-> "music"])
              /\ work_dir' = IF answer = "200" /\ work_dir[j].exists
                             THEN AddFile(j, F("music")) ELSE work_dir
              /\ UNCHANGED <<video_tasks, redis>>
    /\ UNCHANGED <<task_order, req, persistent_dir, minio>>
    /\ UNCHANGED <<avatarVars, writer, functionVars>>

(***************************************************************************)
(* VideoProcessor.merge_videos.                                            *)
(***************************************************************************)
\* progress_callback(5.0) and the start of the download loop
merge_videos(j) ==
    /\ worker[j].pc = "merge_videos"
    /\ progress_callback(j, 5)
    /\ worker' = Frame(j, [pc |-> IF req[j].n_urls = 0 THEN "downloaded"
                                  ELSE "download",
                           i |-> 1, downloaded_videos |-> <<>>])
    /\ UNCHANGED <<task_order, req, work_dir, persistent_dir, minio>>
    /\ UNCHANGED <<avatarVars, writer, functionVars>>

\* AppendDownloaded with insert(0, downloaded) for append(downloaded)
PrependDownloaded(downloaded_videos, video) == <<video>> \o downloaded_videos

\* downloaded_videos.append(downloaded)
AppendDownloaded(downloaded_videos, video) == Append(downloaded_videos, video)

\* One round of the loop over video_urls.  download_video raises on a
\* status other than 200 and on any other error (a missing directory is
\* one); it returns None when the file is not there after the write, which
\* takes the directory to be removed meanwhile; otherwise it returns the
\* path.
download_video(j) ==
    /\ worker[j].pc = "download"
    /\ LET i == worker[j].i
           next == IF i < req[j].n_urls THEN "download" ELSE "downloaded"
       IN \E outcome \in {"path", "None", "raise"} :
            CASE outcome = "path" /\ work_dir[j].exists ->
                    /\ worker' = Frame(j,
                          [pc |-> next, i |-> i + 1, stage |-> "download",
                           downloaded_videos |->
                               AppendDownloaded(worker[j].downloaded_videos,
                                                VideoFile(i))])
                    /\ work_dir' = AddFile(j, VideoFile(i))
                    /\ UNCHANGED <<video_tasks, redis>>
              [] outcome = "None" /\ ~work_dir[j].exists ->
                    /\ worker' = Frame(j, [pc |-> next, i |-> i + 1,
                                           stage |-> "download"])
                    /\ UNCHANGED <<video_tasks, redis, work_dir>>
              [] OTHER ->
                    worker_except(j,
                        ProcessingError(Wrap("Error downloading video",
                                             <<"Failed to download video">>)),
                        "download")
    /\ UNCHANGED <<task_order, req, persistent_dir, minio>>
    /\ UNCHANGED <<avatarVars, writer, functionVars>>

\* downloads_done with the checkpoint 2.0 for 20.0
downloads_done_low(j) ==
    /\ worker[j].pc = "downloaded"
    /\ progress_callback(j, 2)
    /\ worker' = Frame(j, [pc |-> "concat_list"])
    /\ UNCHANGED <<task_order, req, work_dir, persistent_dir, minio>>
    /\ UNCHANGED <<avatarVars, writer, functionVars>>

\* progress_callback(20.0) after the loop
downloads_done(j) ==
    /\ worker[j].pc = "downloaded"
    /\ progress_callback(j, 20)
    /\ worker' = Frame(j, [pc |-> "concat_list"])
    /\ UNCHANGED <<task_order, req, work_dir, persistent_dir, minio>>
    /\ UNCHANGED <<avatarVars, writer, functionVars>>

\* The no-sources check and the concat list: one line per downloaded video,
\* in the order of downloaded_videos.
write_concat_list(j) ==
    /\ worker[j].pc = "concat_list"
    /\ IF worker[j].downloaded_videos = <<>>
       THEN worker_except(j,
                ProcessingError(<<"No videos were downloaded successfully">>),
                "sources")
       ELSE IF ~work_dir[j].exists
       THEN worker_except(j, ProcessingError(<<"No such file or directory">>),
                          "concat_list")
       ELSE /\ worker' = Frame(j, [pc |-> "concat", stage |-> "concat_list",
                                   concat_list |-> worker[j].downloaded_videos])
            /\ work_dir' = AddFile(j, F("concat_list.txt"))
            /\ UNCHANGED <<video_tasks, redis>>
    /\ UNCHANGED <<task_order, req, persistent_dir, minio>>
    /\ UNCHANGED <<avatarVars, writer, functionVars>>


\* AfterSubtitles with the music branch taken whether or not music is there
AfterSubtitlesAlwaysMix(j) == "probe"

\* where merge_videos goes after the subtitle block: if music_path
AfterSubtitles(j) == IF worker[j].music_path THEN "probe" ELSE "copy"

\* The concat command.  A non-zero exit raises; success makes merged_base
\* the current video and reports 40.
concat(j) ==
    /\ worker[j].pc = "concat"
    /\ \E returncode \in {0, 1} :
         IF returncode = 0
            /\ CanRun(j, {F("concat_list.txt")} \cup Range(worker[j].concat_list))
         THEN /\ worker' = Frame(j,
                    [pc |-> IF req[j].subtitles THEN "subtitles"
                            ELSE AfterSubtitles(j),
                     stage |-> "concat", current_video |-> "merged_base.mp4"])
              /\ work_dir' = AddFile(j, F("merged_base.mp4"))
              /\ progress_callback(j, 40)
         ELSE worker_except(j, ProcessingError(<<"Error merging videos">>),
                            "concat")
    /\ UNCHANGED <<task_order, req, persistent_dir, minio>>
    /\ UNCHANGED <<avatarVars, writer, functionVars>>

\* the timed-text track whatever the mode
SubtitleFileSrt(j) == F("subtitles.srt")

\* the subtitle track of the request's mode
SubtitleFile(j) ==
    IF req[j].karaoke_mode THEN F("subtitles.ass") ELSE F("subtitles.srt")

\* the filter of cmd_sub: ass= for the karaoke track, subtitles= with
\* force_style for the timed text
SubtitleFilter(j) == IF req[j].karaoke_mode THEN "ass" ELSE "subtitles"

\* if subtitles_data: the track file is written and 50 reported
create_subtitles(j) ==
    /\ worker[j].pc = "subtitles"
    /\ IF work_dir[j].exists
       THEN /\ worker' = Frame(j, [pc |-> "burn", stage |-> "subtitles"])
            /\ work_dir' = AddFile(j, SubtitleFile(j))
            /\ progress_callback(j, 50)
       ELSE worker_except(j,
                ProcessingError(Wrap("Error creating subtitles",
                                     <<"No such file or directory">>)),
                "subtitles")
    /\ UNCHANGED <<task_order, req, persistent_dir, minio>>
    /\ UNCHANGED <<avatarVars, writer, functionVars>>

\* burn_subtitles with a non-zero exit raised like that of the other commands
burn_subtitles_fatal(j) ==
    /\ worker[j].pc = "burn"
    /\ \E returncode \in {0, 1} :
         IF returncode = 0
            /\ CanRun(j, {F(worker[j].current_video), SubtitleFile(j)})
         THEN /\ worker' = Frame(j,
                    [pc |-> AfterSubtitles(j), stage |-> "burn",
                     subtitle_burn |-> "ok",
                     subtitle_filter |-> SubtitleFilter(j),
                     current_video |-> "video_with_subtitles.mp4"])
              /\ work_dir' = AddFile(j, F("video_with_subtitles.mp4"))
              /\ progress_callback(j, 70)
         ELSE worker_except(j, ProcessingError(<<"Error adding subtitles">>),
                            "burn")
    /\ UNCHANGED <<task_order, req, persistent_dir, minio>>
    /\ UNCHANGED <<avatarVars, writer, functionVars>>

\* The burn-in command.  Exit 0 makes video_with_subtitles the current
\* video; any other exit is logged and the current video stays.  70 is
\* reported in both cases.
burn_subtitles(j) ==
    /\ worker[j].pc = "burn"
    /\ \E returncode \in {0, 1} :
         LET ok == returncode = 0
                   /\ CanRun(j, {F(worker[j].current_video), SubtitleFile(j)})
         IN /\ worker' = Frame(j,
                  [pc |-> AfterSubtitles(j), stage |-> "burn",
                   subtitle_burn |-> IF ok THEN "ok" ELSE "failed",
                   subtitle_filter |-> SubtitleFilter(j),
                   current_video |-> IF ok THEN "video_with_subtitles.mp4"
                                     ELSE worker[j].current_video])
            /\ work_dir' = IF ok THEN AddFile(j, F("video_with_subtitles.mp4"))
                           ELSE work_dir
    /\ progress_callback(j, 70)
    /\ UNCHANGED <<task_order, req, persistent_dir, minio>>
    /\ UNCHANGED <<avatarVars, writer, functionVars>>

\* get_video_info(current_video) of the music branch
get_video_info(j) ==
    /\ worker[j].pc = "probe"
    /\ \E returncode \in {0, 1} :
         IF returncode = 0 /\ CanRun(j, {F(worker[j].current_video)})
         THEN /\ worker' = Frame(j, [pc |-> "audio", stage |-> "probe"])
              /\ UNCHANGED <<video_tasks, redis, work_dir>>
         ELSE worker_except(j,
                  ProcessingError(Wrap("Error getting video info",
                                       <<"Failed to get video info">>)),
                  "probe")
    /\ UNCHANGED <<task_order, req, persistent_dir, minio>>
    /\ UNCHANGED <<avatarVars, writer, functionVars>>

\* The music loop command.  A non-zero exit raises; success reports 80.
prepare_audio(j) ==
    /\ worker[j].pc = "audio"
    /\ \E returncode \in {0, 1} :
         IF returncode = 0 /\ CanRun(j, {F("music")})
         THEN /\ worker' = Frame(j, [pc |-> "mux", stage |-> "audio"])
              /\ work_dir' = AddFile(j, F("prepared_audio.mp3"))
              /\ progress_callback(j, 80)
         ELSE worker_except(j, ProcessingError(<<"Error preparing audio">>),
                            "audio")
    /\ UNCHANGED <<task_order, req, persistent_dir, minio>>
    /\ UNCHANGED <<avatarVars, writer, functionVars>>

\* The final command with music (map video and audio), then 95 and return.
final_mux(j) ==
    /\ worker[j].pc = "mux"
    /\ \E returncode \in {0, 1} :
         IF returncode = 0
            /\ CanRun(j, {F(worker[j].current_video), F("prepared_audio.mp3")})
         THEN /\ worker' = Frame(j, [pc |-> "store", stage |-> "mux",
                                     output_file |-> req[j].output_filename])
              /\ work_dir' = AddFile(j, F(req[j].output_filename))
              /\ progress_callback(j, 95)
         ELSE worker_except(j, ProcessingError(<<"Error creating final video">>),
                            "mux")
    /\ UNCHANGED <<task_order, req, persistent_dir, minio>>
    /\ UNCHANGED <<avatarVars, writer, functionVars>>

\* The final command without music (stream copy), then 95 and return.
final_copy(j) ==
    /\ worker[j].pc = "copy"
    /\ \E returncode \in {0, 1} :
         IF returncode = 0 /\ CanRun(j, {F(worker[j].current_video)})
         THEN /\ worker' = Frame(j, [pc |-> "store", stage |-> "copy",
                                     output_file |-> req[j].output_filename])
              /\ work_dir' = AddFile(j, F(req[j].output_filename))
              /\ progress_callback(j, 95)
         ELSE worker_except(j, ProcessingError(<<"Error creating final video">>),
                            "copy")
    /\ UNCHANGED <<task_order, req, persistent_dir, minio>>
    /\ UNCHANGED <<avatarVars, writer, functionVars>>


(***************************************************************************)
(* VideoProcessor.process_circle_video and process_overlay_video.          *)
(***************************************************************************)
\* progress_callback(5.0)
process_circle_video(j) ==
    /\ worker[j].pc = "circle_video"
    /\ progress_callback(j, 5)
    /\ worker' = Frame(j, [pc |-> "background"])
    /\ UNCHANGED <<task_order, req, work_dir, persistent_dir, minio>>
    /\ UNCHANGED <<avatarVars, writer, functionVars>>

\* lengths in seconds of the videos behind the two URLs
MediaDurations == {1, 2}

\* the download of one of the two inputs, then its checkpoint; durations
\* holds the length of each video file of the run
circle_download(j, at, file, p, next, text) ==
    /\ worker[j].pc = at
    /\ \E outcome \in {"path", "None", "raise"}, d \in MediaDurations :
         CASE outcome = "path" /\ work_dir[j].exists ->
                 /\ worker' = Frame(j, [pc |-> next, stage |-> at,
                        durations |-> Put(worker[j].durations, file, d)])
                 /\ work_dir' = AddFile(j, F(file))
                 /\ progress_callback(j, p)
           [] outcome = "None" ->
                 worker_except(j, ProcessingError(<<text>>), at)
           [] OTHER ->
                 worker_except(j,
                     ProcessingError(Wrap("Error downloading video",
                                          <<"Failed to download video">>)),
                     at)
    /\ UNCHANGED <<task_order, req, persistent_dir, minio>>
    /\ UNCHANGED <<avatarVars, writer, functionVars>>

download_background(j) ==
    circle_download(j, "background", "background.mp4", 15, "circle",
                    "Failed to download background video")

download_circle(j) ==
    circle_download(j, "circle", "circle.mp4", 30, "circle_info",
                    "Failed to download circle video")

\* a probe of the background in the place of the circle video
ProbedDurationBackground(j) == worker[j].durations["background.mp4"]

\* circle_info = get_video_info(circle_video_path); duration =
\* circle_info.get('duration', 0)
ProbedDuration(j) == worker[j].durations["circle.mp4"]

\* get_video_info(circle_video_path) for the duration cap
circle_info(j) ==
    /\ worker[j].pc = "circle_info"
    /\ \E returncode \in {0, 1} :
         IF returncode = 0 /\ CanRun(j, {F("circle.mp4")})
         THEN /\ worker' = Frame(j, [pc |-> "composite", stage |-> "circle_info",
                        durations |-> Put(worker[j].durations, "-t",
                                          ProbedDuration(j))])
              /\ UNCHANGED <<video_tasks, redis, work_dir>>
         ELSE worker_except(j,
                  ProcessingError(Wrap("Error getting video info",
                                       <<"Failed to get video info">>)),
                  "circle_info")
    /\ UNCHANGED <<task_order, req, persistent_dir, minio>>
    /\ UNCHANGED <<avatarVars, writer, functionVars>>

\* The length of the output of the compositing command.  The overlay
\* filter runs with its defaults (no shortest, eof_action repeat): its
\* output lasts as long as the longer of its two inputs, the last frame of
\* the one that ended being repeated; '-t' cuts the output at the cap.
CompositeDuration(j) ==
    LET d == worker[j].durations
        longest == IF d["background.mp4"] >= d["circle.mp4"]
                   THEN d["background.mp4"] ELSE d["circle.mp4"]
    IN IF d["-t"] <= longest THEN d["-t"] ELSE longest

\* The compositing command.  A non-zero exit raises; success reports 100.
composite(j) ==
    /\ worker[j].pc = "composite"
    /\ \E returncode \in {0, 1} :
         IF returncode = 0
            /\ CanRun(j, {F("background.mp4"), F("circle.mp4")})
         THEN /\ worker' = Frame(j, [pc |-> "store", stage |-> "composite",
                        output_file |-> "circle_video.mp4",
                        durations |-> Put(worker[j].durations,
                                          "circle_video.mp4",
                                          CompositeDuration(j))])
              /\ work_dir' = AddFile(j, F("circle_video.mp4"))
              /\ progress_callback(j, 100)
         ELSE worker_except(j, ProcessingError(<<"FFmpeg conversion failed">>),
                            "composite")
    /\ UNCHANGED <<task_order, req, persistent_dir, minio>>
    /\ UNCHANGED <<avatarVars, writer, functionVars>>

\* process_overlay_video as a whole: it returns its output file or raises.
process_overlay_video(j) ==
    /\ worker[j].pc = "overlay_video"
    /\ \E done \in BOOLEAN :
         IF done /\ work_dir[j].exists
         THEN /\ worker' = Frame(j, [pc |-> "store", stage |-> "overlay",
                                     output_file |-> "overlay_video.mp4"])
              /\ work_dir' = AddFile(j, F("overlay_video.mp4"))
              /\ UNCHANGED <<video_tasks, redis>>
         ELSE worker_except(j, ProcessingError(<<"overlay failed">>), "overlay")
    /\ UNCHANGED <<task_order, req, persistent_dir, minio>>
    /\ UNCHANGED <<avatarVars, writer, functionVars>>

(***************************************************************************)
(* End of a worker run.                                                    *)
(***************************************************************************)
\* a completed record that names the output and leaves the status alone
CompletedAppLocatorOnly(name) ==
    [completed_at |-> TRUE, progress |-> 100,
     download_url |-> name, output_file |-> name]

CompletedApp(name) ==
    [status |-> "completed", completed_at |-> TRUE, progress |-> 100,
     download_url |-> name, output_file |-> name]

\* process_video after merge_videos: the move to PERSISTENT_DIR, the
\* completed record and the cleanup.  The record update raises KeyError when
\* the record is gone, and so does the except clause after it.
store_output(j) ==
    /\ worker[j].pc = "store"
    /\ worker[j].kind = "app"
    /\ \E moved \in BOOLEAN :
         IF moved /\ CanRun(j, {F(worker[j].output_file)})
         THEN /\ persistent_dir' = Put(persistent_dir, worker[j].output_file, j)
              /\ IF j \in DOMAIN video_tasks
                 THEN /\ video_tasks' = [video_tasks EXCEPT ![j] =
                            DictUpdate(@, CompletedApp(worker[j].output_file))]
                      /\ work_dir' = cleanup(j)
                      /\ worker' = Frame(j, [pc |-> "returned", stage |-> "store"])
                 ELSE /\ UNCHANGED video_tasks
                      /\ work_dir' = [work_dir EXCEPT ![j].files =
                                          @ \ {F(worker[j].output_file)}]
                      /\ worker' = Frame(j, [pc |-> "raised", stage |-> "store"])
              /\ UNCHANGED redis
         ELSE /\ worker_except(j, <<"move failed">>, "store")
              /\ UNCHANGED persistent_dir
    /\ UNCHANGED <<task_order, req, minio>>
    /\ UNCHANGED <<avatarVars, writer, functionVars>>

\* object_name = f"{video_id}/{os.path.basename(output_file)}"
ObjectName(j) == [video_id |-> j, name |-> worker[j].output_file]

\* an upload_file that reports a failed upload and returns
upload_file_swallowed(j) ==
    /\ worker[j].pc = "store"
    /\ worker[j].kind # "app"
    /\ \E uploaded \in BOOLEAN :
         /\ minio' = IF uploaded /\ CanRun(j, {F(worker[j].output_file)})
                     THEN minio \cup {ObjectName(j)} ELSE minio
         /\ worker' = Frame(j, [pc |-> "complete", stage |-> "store"])
         /\ UNCHANGED <<video_tasks, redis, work_dir>>
    /\ UNCHANGED <<task_order, req, persistent_dir>>
    /\ UNCHANGED <<avatarVars, writer, functionVars>>

\* storage.upload_file(output_file, object_name)
upload_file(j) ==
    /\ worker[j].pc = "store"
    /\ worker[j].kind # "app"
    /\ \E uploaded \in BOOLEAN :
         IF uploaded /\ CanRun(j, {F(worker[j].output_file)})
         THEN /\ minio' = minio \cup {ObjectName(j)}
              /\ worker' = Frame(j, [pc |-> "complete", stage |-> "store"])
              /\ UNCHANGED <<video_tasks, redis, work_dir>>
         ELSE /\ worker_except(j, <<"upload failed">>, "store")
              /\ UNCHANGED minio
    /\ UNCHANGED <<task_order, req, persistent_dir>>
    /\ UNCHANGED <<avatarVars, writer, functionVars>>

CompletedTask(j) ==
    [status |-> "completed", progress |-> 100, completed_at |-> TRUE,
     object_name |-> ObjectName(j), download_url |-> j]

\* the completed record of a _process_*_async run, then its finally clause
complete_task(j) ==
    /\ worker[j].pc = "complete"
    /\ redis' = update_status(redis, j, CompletedTask(j))
    /\ work_dir' = cleanup(j)
    /\ worker' = Frame(j, [pc |-> "returned"])
    /\ UNCHANGED <<video_tasks, task_order, req, persistent_dir, minio>>
    /\ UNCHANGED <<avatarVars, writer, functionVars>>

(***************************************************************************)
(* The local workers.                                                      *)
(***************************************************************************)
InitLocal ==
    /\ video_tasks = <<>>
    /\ task_order = <<>>
    /\ redis = <<>>
    /\ req = [j \in VideoIds |-> NoReq]
    /\ worker = [j \in VideoIds |-> IdleWorker]
    /\ work_dir = [j \in VideoIds |-> NoDir]
    /\ persistent_dir = <<>>
    /\ minio = {}



(***************************************************************************)
(* The avatar service: motion_cache, final_montages, the webhook and the   *)
(* monitor.                                                                *)
(***************************************************************************)
\* ids the two remote services hand out: taskId of the AI provider and
\* video_id of the montage service come from the same space of strings
ExternalIds == {"e1", "e2"}

\* primary keys of the rows the service inserts
MotionIds == {"m1", "m2"}

MontageIds == {"g1"}

\* for _ in range(max_retries); the program's value is 240, scaled here
max_retries == 3

\* the notices the webhook endpoint can be sent
ResultJsons ==
    {[kind |-> "absent", resultUrls |-> <<>>],
     [kind |-> "unparsable", resultUrls |-> <<>>],
     [kind |-> "json", resultUrls |-> <<>>],
     [kind |-> "json", resultUrls |-> <<"u1">>],
     [kind |-> "json", resultUrls |-> <<"u2", "u1">>]}

\* a notice; fields that the handler does not read on a path are held at
\* one value on that path
Notice(code, taskId, state, resultJson, failMsg) ==
    [code |-> code, taskId |-> taskId, state |-> state,
     resultJson |-> resultJson, failMsg |-> failMsg]

Absent == [kind |-> "absent", resultUrls |-> <<>>]

Payloads ==
    {Notice(200, t, "success", r, None) : t \in ExternalIds, r \in ResultJsons}
    \cup {Notice(200, t, s, Absent, "provider error") :
                t \in ExternalIds, s \in {"fail", "generating"}}
    \cup {Notice(501, t, "success", r, None) :
                t \in ExternalIds, r \in {Absent} }
    \cup {Notice(200, None, "success", Absent, None)}

\* sb.table(t).update(data).eq(column, value).execute()
TableUpdate(table, column, value, data) ==
    [id \in DOMAIN table |->
        IF table[id][column] = value THEN DictUpdate(table[id], data)
        ELSE table[id]]

\* the rows an update with .eq(column, value) applies to
Matching(table, column, value) ==
    {id \in DOMAIN table : table[id][column] = value}

\* the taskIds the provider has returned
Issued == {provider[m] : m \in DOMAIN provider}

\* the first result URL of a success notice, None when resultJson is
\* absent, unparsable or holds no URL
VideoUrl(resultJson) ==
    IF resultJson.kind = "json" /\ resultJson.resultUrls # <<>>
    THEN resultJson.resultUrls[1]
    ELSE None

\* The taskId the provider returns is one it has not returned before; which
\* one makes no difference to the service, and the model takes a fixed one.
FreshTaskId == CHOOSE t \in ExternalIds \ Issued : TRUE

\* Row ids are made at the insert and stand for nothing else: the model
\* names the call that is dispatched first m1.
FirstMotion == "m1"

\* A call of POST /motions: where it is, whether its lookup found a success
\* record for the pair, the createTask requests it has sent, the records it
\* has inserted, and its response (the id of the record it returned, or the
\* status code of the error).
IdleCall == [pc |-> "idle", existing |-> FALSE, requests |-> 0,
             inserts |-> 0, response |-> None]

\* the calls are taken in the order of their names
NextCall(m) == m = FirstMotion \/ motion_call[FirstMotion].pc # "idle"

\* existing.data: the success records of the pair
Existing == {x \in DOMAIN motion_cache : motion_cache[x].status = "success"}

\* f"mock_{uuid.uuid4()}"
MockId(m) == "mock_" \o m

\* settings.KIE_API_KEY is one value for all calls: the calls that went
\* through the branch without the key, and those that posted to the provider
MockCalls == {m \in MotionIds : /\ m \in DOMAIN motion_cache
                                /\ motion_cache[m].external_job_id = MockId(m)}
KeyCalls == {m \in MotionIds : motion_call[m].requests > 0}

\* POST /motions when a success record exists for the pair: the record is
\* returned
create_motion_cache_existing(m) ==
    /\ motion_call[m].pc = "idle"
    /\ NextCall(m)
    /\ Existing # {}
    /\ \E x \in Existing :
         motion_call' = [motion_call EXCEPT ![m] =
            [pc |-> "returned", existing |-> TRUE, requests |-> 0,
             inserts |-> 0, response |-> x]]
    /\ UNCHANGED <<motion_cache, final_montages, provider, monitor, unmatched>>
    /\ UNCHANGED <<localVars, writer, functionVars>>

\* POST /motions for an avatar_id or a reference_id that has no row: 404
create_motion_cache_not_found(m) ==
    /\ motion_call[m].pc = "idle"
    /\ NextCall(m)
    /\ Existing = {}
    /\ motion_call' = [motion_call EXCEPT ![m] =
            [pc |-> "returned", existing |-> FALSE, requests |-> 0,
             inserts |-> 0, response |-> "404"]]
    /\ UNCHANGED <<motion_cache, final_montages, provider, monitor, unmatched>>
    /\ UNCHANGED <<localVars, writer, functionVars>>

\* POST /motions with the createTask request answered by a status other
\* than 200, by a code other than 200, or not at all: 502 or 500
request_motion_generation_failed(m) ==
    /\ motion_call[m].pc = "idle"
    /\ NextCall(m)
    /\ Existing = {}
    /\ MockCalls = {}
    /\ \E code \in {"502", "500"} :
         motion_call' = [motion_call EXCEPT ![m] =
            [pc |-> "returned", existing |-> FALSE, requests |-> 1,
             inserts |-> 0, response |-> code]]
    /\ UNCHANGED <<motion_cache, final_montages, provider, monitor, unmatched>>
    /\ UNCHANGED <<localVars, writer, functionVars>>

\* a row as create_motion_cache inserts it
ProcessingRow(m, task_id) ==
    [id |-> m, avatar_id |-> "a1", reference_id |-> "r1",
     external_job_id |-> task_id, status |-> "processing",
     motion_video_url |-> None, motion_thumbnail_url |-> None,
     error_log |-> None]

\* POST /motions with no KIE_API_KEY configured: no request is sent and the
\* row is inserted with a mock id
create_motion_cache_mock(m) ==
    /\ motion_call[m].pc = "idle"
    /\ NextCall(m)
    /\ Existing = {}
    /\ KeyCalls = {}
    /\ m \notin DOMAIN motion_cache
    /\ motion_cache' = Put(motion_cache, m, ProcessingRow(m, MockId(m)))
    /\ motion_call' = [motion_call EXCEPT ![m] =
            [pc |-> "returned", existing |-> FALSE, requests |-> 0,
             inserts |-> 1, response |-> m]]
    /\ UNCHANGED <<final_montages, provider, monitor, unmatched>>
    /\ UNCHANGED <<localVars, writer, functionVars>>

\* POST /motions up to the answer of the provider: no dispatch when a
\* success row exists for the pair; otherwise the provider creates a remote
\* job and returns its taskId
request_motion_generation(m) ==
    /\ motion_call[m].pc = "idle"
    /\ NextCall(m)
    /\ m \notin DOMAIN motion_cache
    /\ m \notin DOMAIN provider
    /\ Existing = {}
    /\ MockCalls = {}
    /\ ExternalIds \ Issued # {}
    /\ provider' = Put(provider, m, FreshTaskId)
    /\ motion_call' = [motion_call EXCEPT ![m].pc = "awaited",
                                          ![m].requests = @ + 1]
    /\ UNCHANGED <<motion_cache, final_montages, monitor, unmatched>>
    /\ UNCHANGED <<localVars, writer, functionVars>>

\* create_motion_cache that inserts its row twice, the second under the id
\* of the next call
create_motion_cache_twice(m) ==
    /\ motion_call[m].pc = "awaited"
    /\ m \in DOMAIN provider
    /\ m \notin DOMAIN motion_cache
    /\ motion_cache' =
         [x \in DOMAIN motion_cache \cup MotionIds |->
            IF x \in DOMAIN motion_cache THEN motion_cache[x]
            ELSE ProcessingRow(x, provider[m])]
    /\ motion_call' = [motion_call EXCEPT ![m].pc = "returned",
                                          ![m].inserts = @ + 1,
                                          ![m].response = m]
    /\ UNCHANGED <<final_montages, provider, monitor, unmatched>>
    /\ UNCHANGED <<localVars, writer, functionVars>>

\* POST /motions after the provider answered: the insert of the row
create_motion_cache(m) ==
    /\ motion_call[m].pc = "awaited"
    /\ m \in DOMAIN provider
    /\ m \notin DOMAIN motion_cache
    /\ motion_cache' = Put(motion_cache, m, ProcessingRow(m, provider[m]))
    /\ motion_call' = [motion_call EXCEPT ![m].pc = "returned",
                                          ![m].inserts = @ + 1,
                                          ![m].response = m]
    /\ UNCHANGED <<final_montages, provider, monitor, unmatched>>
    /\ UNCHANGED <<localVars, writer, functionVars>>

\* no update call is made
NoUpdate == [ignored |-> TRUE]

\* a handler that gives the notice up when no thumbnail could be made
CallbackUpdateThumbnailFatal(payload, thumbnail) ==
    IF payload.code # 200 \/ payload.taskId = None THEN NoUpdate
    ELSE IF payload.state = "success"
    THEN IF VideoUrl(payload.resultJson) = None \/ thumbnail = None
         THEN NoUpdate
         ELSE [status |-> "success",
               motion_video_url |-> VideoUrl(payload.resultJson),
               motion_thumbnail_url |-> thumbnail]
    ELSE [status |-> "failed", error_log |-> payload.failMsg]

\* a handler that takes a success notice without a result URL for a failure
CallbackUpdateNoUrlFails(payload, thumbnail) ==
    IF payload.code # 200 \/ payload.taskId = None THEN NoUpdate
    ELSE IF payload.state = "success"
            /\ VideoUrl(payload.resultJson) # None
    THEN [status |-> "success",
          motion_video_url |-> VideoUrl(payload.resultJson),
          motion_thumbnail_url |-> thumbnail]
    ELSE [status |-> "failed", error_log |-> payload.failMsg]

\* a handler that takes only the state fail for a failure and ignores a
\* notice whose state is neither success nor fail
CallbackUpdateTerminalOnly(payload, thumbnail) ==
    IF payload.code # 200 \/ payload.taskId = None THEN NoUpdate
    ELSE IF payload.state = "success"
    THEN IF VideoUrl(payload.resultJson) = None THEN NoUpdate
         ELSE [status |-> "success",
               motion_video_url |-> VideoUrl(payload.resultJson),
               motion_thumbnail_url |-> thumbnail]
    ELSE IF payload.state = "fail"
    THEN [status |-> "failed", error_log |-> payload.failMsg]
    ELSE NoUpdate

\* the update a notice leads to, NoUpdate when the notice is ignored
CallbackUpdate(payload, thumbnail) ==
    IF payload.code # 200 \/ payload.taskId = None THEN NoUpdate
    ELSE IF payload.state = "success"
    THEN IF VideoUrl(payload.resultJson) = None THEN NoUpdate
         ELSE [status |-> "success",
               motion_video_url |-> VideoUrl(payload.resultJson),
               motion_thumbnail_url |-> thumbnail]
    ELSE [status |-> "failed", error_log |-> payload.failMsg]

\* what the best-effort thumbnail block can yield for a notice: a URL, or
\* None when the download, the frame grab or the upload fails; the block
\* runs for a success notice with a video URL only
Thumbnails(payload) ==
    IF payload.state = "success" /\ VideoUrl(payload.resultJson) # None
    THEN {None, "thumb"} ELSE {None}

\* POST /callback
handle_callback(payload) ==
    /\ \E thumbnail \in Thumbnails(payload) :
         LET data == CallbackUpdate(payload, thumbnail)
         IN /\ motion_cache' =
                IF data = NoUpdate THEN motion_cache
                ELSE TableUpdate(motion_cache, "external_job_id",
                                 payload.taskId, data)
            /\ unmatched' =
                IF data # NoUpdate /\ payload.taskId \in Issued
                   /\ Matching(motion_cache, "external_job_id",
                               payload.taskId) = {}
                THEN unmatched \cup {payload.taskId}
                ELSE unmatched
    /\ UNCHANGED <<final_montages, provider, monitor, motion_call>>
    /\ UNCHANGED <<localVars, writer, functionVars>>

\* time.sleep(15): the seconds between two polls
POLL_INTERVAL == 15

\* A monitor_montage_task: where it is, the polls made, the seconds slept,
\* and what its last round did (the status polled, the error_message of the
\* status response, whether the download and the upload were made),
\* and dispatch, what the montage service answered to the request the
\* montage was sent with.
IdleMonitor == [pc |-> "idle", video_id |-> None, attempts |-> 0,
                elapsed |-> 0, result |-> None, poll |-> None,
                error_message |-> None, download |-> FALSE, upload |-> FALSE,
                stored |-> FALSE, writes |-> 0, dispatch |-> None]

\* monitor_montage_task.apply_async(args=[montage_id, video_id], countdown=60)
ScheduledMonitor(video_id) ==
    DictUpdate(IdleMonitor, [pc |-> "scheduled", video_id |-> video_id])

\* request_montage_creation with the monitor scheduled on every answer
request_montage_creation_always_monitored(montages, g, answer, video_id) ==
    [montages |-> IF answer = "200" THEN montages
                  ELSE TableUpdate(montages, "id", g, [status |-> "error"]),
     monitor |-> ScheduledMonitor(video_id)]

\* request_montage_creation that leaves the record as it is on an answer
\* it schedules no monitor for
request_montage_creation_unmarked(montages, g, answer, video_id) ==
    [montages |-> montages,
     monitor |-> IF answer = "200" THEN ScheduledMonitor(video_id)
                 ELSE IdleMonitor]

\* request_montage_creation: the monitor is scheduled when the montage
\* service answers 200 with a video_id; every other answer sets error
request_montage_creation(montages, g, answer, video_id) ==
    IF answer = "200"
    THEN [montages |-> montages,
          monitor |-> ScheduledMonitor(video_id)]
    ELSE [montages |-> TableUpdate(montages, "id", g, [status |-> "error"]),
          monitor |-> IdleMonitor]

\* POST /montages
create_montage(g) ==
    /\ g \notin DOMAIN final_montages
    /\ monitor[g].pc = "idle"
    /\ \E m \in DOMAIN motion_cache :
         /\ motion_cache[m].motion_video_url # None
         /\ \E answer \in {"200", "no video_id", "unparsable", "500", "error"},
               video_id \in ExternalIds :
              LET row == [id |-> g, motion_id |-> m, status |-> "rendering",
                          final_video_url |-> None,
                          final_thumbnail_url |-> None, settings |-> None]
                  out == request_montage_creation(
                             Put(final_montages, g, row), g, answer, video_id)
              IN /\ final_montages' = out.montages
                 /\ monitor' = [monitor EXCEPT ![g] =
                        DictUpdate(out.monitor, [dispatch |-> answer])]
    /\ UNCHANGED <<motion_cache, provider, unmatched, motion_call>>
    /\ UNCHANGED <<localVars, writer, functionVars>>

\* filename = f"final_montage_{montage_id}.mp4"
FinalUrl(g) == [file |-> "final_montage", id |-> g]

\* ErrorText with the default taken whatever the response holds
ErrorTextDefault(error_message) == "Unknown error"

\* error_msg = data.get("error_message", "Unknown error")
ErrorText(error_message) ==
    IF error_message = None THEN "Unknown error" ELSE error_message

\* MonitorUpdate with a download that is not answered 200 followed by the
\* sleep and another round
MonitorUpdateRetryDownload(g, poll, error_message, download, upload, thumbnail) ==
    CASE poll = "completed" /\ download = "200" /\ upload = "ok" ->
            [status |-> "ready", final_video_url |-> FinalUrl(g),
             final_thumbnail_url |-> thumbnail]
      [] poll = "failed" ->
            [status |-> "error", settings |-> ErrorText(error_message)]
      [] OTHER -> NoUpdate

\* MonitorUpdate with a status request that is not answered 200 taken for
\* the end of the montage
MonitorUpdateGiveUp(g, poll, error_message, download, upload, thumbnail) ==
    CASE poll = "completed" /\ download = "200" /\ upload = "ok" ->
            [status |-> "ready", final_video_url |-> FinalUrl(g),
             final_thumbnail_url |-> thumbnail]
      [] poll = "completed" /\ download # "200" ->
            [status |-> "error", settings |-> "Failed to download"]
      [] poll = "failed" ->
            [status |-> "error", settings |-> ErrorText(error_message)]
      [] poll = "500" ->
            [status |-> "error", settings |-> "Status check failed"]
      [] OTHER -> NoUpdate

\* the write a poll leads to, NoUpdate when the poll is followed by the
\* sleep and another round
MonitorUpdate(g, poll, error_message, download, upload, thumbnail) ==
    CASE poll = "completed" /\ download = "200" /\ upload = "ok" ->
            [status |-> "ready", final_video_url |-> FinalUrl(g),
             final_thumbnail_url |-> thumbnail]
      [] poll = "completed" /\ download # "200" ->
            [status |-> "error", settings |-> "Failed to download"]
      [] poll = "failed" ->
            [status |-> "error", settings |-> ErrorText(error_message)]
      [] OTHER -> NoUpdate

\* the requests a round makes besides the poll: the download on completed,
\* the upload after a download that answered 200
MonitorCalls(poll, download) ==
    [download |-> poll = "completed",
     upload |-> poll = "completed" /\ download = "200"]

\* upload_to_minio(file_content, filename) put the object
Stored(poll, download, upload) ==
    MonitorCalls(poll, download).upload /\ upload = "ok"

\* monitor_write with the update keyed by the external id on the table of
\* the webhook: one job table for both writers
monitor_write_by_external_id(g, data) ==
    /\ final_montages' = TableUpdate(final_montages, "id", g, data)
    /\ motion_cache' = TableUpdate(motion_cache, "external_job_id",
                                   monitor[g].video_id,
                                   [status |-> data.status])

\* sb.table("final_montages").update(data).eq("id", montage_id).execute()
monitor_write(g, data) ==
    /\ final_montages' = TableUpdate(final_montages, "id", g, data)
    /\ UNCHANGED motion_cache

\* What the remote services answer in one round.  An answer the round does
\* not get to ask for is held at one value.
Round(poll, error_message, download, upload, thumbnail) ==
    [poll |-> poll, error_message |-> error_message, download |-> download,
     upload |-> upload, thumbnail |-> thumbnail]

Rounds ==
    {Round(poll, None, "404", "raise", None) :
        poll \in {"exception", "500", "processing"}}
    \cup {Round("failed", e, "404", "raise", None) :
            e \in {None, "render failed"}}
    \cup {Round("completed", None, "404", "raise", None),
          Round("completed", None, "200", "raise", None)}
    \cup {Round("completed", None, "200", "ok", t) : t \in {None, "thumb"}}

\* one round of the polling loop of monitor_montage_task
monitor_montage_task(g) ==
    /\ monitor[g].pc \in {"scheduled", "polling"}
    /\ monitor[g].attempts < max_retries
    /\ \E r \in Rounds :
         LET data == MonitorUpdate(g, r.poll, r.error_message, r.download,
                                   r.upload, r.thumbnail)
             round == DictUpdate(monitor[g],
                        DictUpdate(MonitorCalls(r.poll, r.download),
                            [attempts |-> monitor[g].attempts + 1,
                             stored |-> monitor[g].stored
                                \/ Stored(r.poll, r.download, r.upload),
                             poll |-> r.poll,
                             error_message |-> r.error_message]))
         IN IF data = NoUpdate
            THEN /\ monitor' = [monitor EXCEPT ![g] = DictUpdate(round,
                        [pc |-> "polling",
                         elapsed |-> monitor[g].elapsed + POLL_INTERVAL])]
                 /\ UNCHANGED <<final_montages, motion_cache>>
            ELSE /\ monitor_write(g, data)
                 /\ monitor' = [monitor EXCEPT ![g] = DictUpdate(round,
                        [pc |-> "returned", result |-> data.status,
                         writes |-> monitor[g].writes + 1])]
    /\ UNCHANGED <<provider, unmatched, motion_call>>
    /\ UNCHANGED <<localVars, writer, functionVars>>

\* monitor_timeout of a loop that is left one round early
monitor_timeout_early(g) ==
    /\ monitor[g].pc \in {"scheduled", "polling"}
    /\ monitor[g].attempts = max_retries - 1
    /\ monitor_write(g, [status |-> "error",
                         settings |-> "Timeout waiting for montage"])
    /\ monitor' = [monitor EXCEPT ![g].pc = "returned",
                                  ![g].result = "timeout",
                                  ![g].writes = @ + 1]
    /\ UNCHANGED <<provider, unmatched, motion_call>>
    /\ UNCHANGED <<localVars, writer, functionVars>>

\* a task that returns "timeout" after the loop without the write
monitor_timeout_unwritten(g) ==
    /\ monitor[g].pc \in {"scheduled", "polling"}
    /\ monitor[g].attempts = max_retries
    /\ monitor' = [monitor EXCEPT ![g].pc = "returned",
                                  ![g].result = "timeout"]
    /\ UNCHANGED <<final_montages, motion_cache, provider, unmatched,
                   motion_call>>
    /\ UNCHANGED <<localVars, writer, functionVars>>

\* after the loop: the timeout write
monitor_timeout(g) ==
    /\ monitor[g].pc \in {"scheduled", "polling"}
    /\ monitor[g].attempts = max_retries
    /\ monitor_write(g, [status |-> "error",
                         settings |-> "Timeout waiting for montage"])
    /\ monitor' = [monitor EXCEPT ![g].pc = "returned",
                                  ![g].result = "timeout",
                                  ![g].writes = @ + 1]
    /\ UNCHANGED <<provider, unmatched, motion_call>>
    /\ UNCHANGED <<localVars, writer, functionVars>>

InitAvatar ==
    /\ motion_cache = <<>>
    /\ final_montages = <<>>
    /\ provider = <<>>
    /\ monitor = [g \in MontageIds |-> IdleMonitor]
    /\ unmatched = {}
    /\ motion_call = [m \in MotionIds |-> IdleCall]

(***************************************************************************)
(* update_status of the two workers, call by call.  A call is a            *)
(* redis_client.get followed by a redis_client.set; calls of different     *)
(* worker processes on one key interleave between the two.                 *)
(***************************************************************************)
\* the calls in flight at one time; each makes one call
Writers == {"w1", "w2", "w3"}

Services == {"montage", "avatar"}

\* key = f"task:{video_id}" and key = f"avatar_task:{task_id}"; redis is
\* keyed by the bare video_id for the montage worker
Key(service, id) == IF service = "montage" THEN id ELSE "avatar_task:" \o id

\* the partial records the workers pass: the first report of a run, a
\* progress report, the failure record and the completion record
Partials(service) ==
    IF service = "montage"
    THEN {[status |-> "processing", progress |-> 0],
          [progress |-> 50],
          [status |-> "failed", error_message |-> "e", completed_at |-> TRUE],
          [status |-> "completed", progress |-> 100, completed_at |-> TRUE,
           object_name |-> "v1/output.mp4", download_url |-> "/download/v1"]}
    ELSE {[status |-> "processing", progress |-> 50],
          [status |-> "failed", error_message |-> "e"],
          [status |-> "completed", progress |-> 100, completed_at |-> TRUE,
           result_url |-> "http://minio/bucket/avatar_result.mp4"]}

\* redis_client.get(key) answered None
Missing == [missing |-> TRUE]

IdleWriter == [pc |-> "idle", service |-> None, key |-> None,
               data |-> Missing, current |-> Missing]

\* set_initial_status of the avatar service, for an id not in use
set_initial_status(task_id) ==
    /\ Key("avatar", task_id) \notin DOMAIN redis
    /\ redis' = Put(redis, Key("avatar", task_id),
            [task_id |-> task_id, status |-> "processing",
             created_at |-> TRUE, progress |-> 0])
    /\ UNCHANGED <<video_tasks, task_order, req, worker, work_dir,
                   persistent_dir, minio, writer>>
    /\ UNCHANGED <<avatarVars, functionVars>>

\* current = redis_client.get(key)
update_status_get(w) ==
    /\ writer[w].pc = "idle"
    /\ \E service \in Services, id \in FullIds :
       \E data \in Partials(service) :
         LET key == Key(service, id)
         IN writer' = [writer EXCEPT ![w] =
                [pc |-> "read", service |-> service, key |-> key,
                 data |-> data,
                 current |-> IF key \in DOMAIN redis THEN redis[key]
                             ELSE Missing]]
    /\ UNCHANGED localVars
    /\ UNCHANGED <<avatarVars, functionVars>>

\* a call that stores its argument in place of the record
MergedOverwrite(current, data) == data

\* the record the call stores from what it read
Merged(current, data) == DictUpdate(current, data)

\* current_data.update(data); redis_client.set(key, ...): the montage worker
\* stores data alone for a key it did not find, the avatar worker nothing
update_status_set(w) ==
    /\ writer[w].pc = "read"
    /\ redis' =
         IF writer[w].current # Missing
         THEN Put(redis, writer[w].key,
                  Merged(writer[w].current, writer[w].data))
         ELSE IF writer[w].service = "montage"
         THEN Put(redis, writer[w].key, writer[w].data)
         ELSE redis
    /\ writer' = [writer EXCEPT ![w].pc = "done"]
    /\ UNCHANGED <<video_tasks, task_order, req, worker, work_dir,
                   persistent_dir, minio>>
    /\ UNCHANGED <<avatarVars, functionVars>>

InitStore == writer = [w \in Writers |-> IdleWriter]

(***************************************************************************)
(* create_ass_karaoke_subtitles.  Times are in milliseconds; a text is the *)
(* sequence of its characters.                                             *)
(***************************************************************************)
\* largest number of cues in one call
MaxCues == 2

\* the characters str.split() splits on
Whitespace == {" ", "tab"}

\* subtitle.text
Texts ==
    {<<>>, <<"tab", " ">>, <<"a">>, <<" ", "a", " ", " ", "b", "tab">>,
     <<"a", " ", "b", " ", "c">>, <<"a", " ", "b", " ", "c", " ", "d">>}

\* subtitle.start and subtitle.end: cues of 0.1 s, 0.3 s, 0.9 s, 1 s, 4 s
\* and 10 s, an empty cue and a cue that ends before it starts
Spans ==
    {<<0, 100>>, <<400, 700>>, <<100, 1000>>, <<0, 1000>>, <<0, 4000>>,
     <<0, 10000>>, <<1000, 1000>>, <<700, 400>>}

Cues == {[start |-> span[1], end |-> span[2], text |-> text] :
            span \in Spans, text \in Texts}

\* str.split(): the maximal runs of characters that are not whitespace
RECURSIVE SplitFrom(_, _, _)
SplitFrom(text, i, word) ==
    IF i > Len(text)
    THEN IF word = <<>> THEN <<>> ELSE <<word>>
    ELSE IF text[i] \in Whitespace
    THEN IF word = <<>> THEN SplitFrom(text, i + 1, <<>>)
         ELSE <<word>> \o SplitFrom(text, i + 1, <<>>)
    ELSE SplitFrom(text, i + 1, Append(word, text[i]))

split(text) == SplitFrom(text, 1, <<>>)

\* int(): truncation toward zero of a / b, b > 0
Trunc(a, b) == IF a >= 0 THEN a \div b ELSE 0 - ((0 - a) \div b)

\* The spans for which the double (end - start) * 100 falls just
\* short of the whole number of centiseconds (0.7 - 0.4 is
\* 0.29999999999999993); on every other span of Spans the double arithmetic
\* of the function gives the exact quotient's truncation.
FallsShort == {<<400, 700>>, <<700, 400>>}

\* int((total_duration * 100) / len(words))
QuotientCs(start, end, n) ==
    LET q == Trunc(end - start, 10 * n)
    IN IF <<start, end>> \in FallsShort /\ (end - start) % (10 * n) = 0
       THEN (IF q > 0 THEN q - 1 ELSE q + 1)
       ELSE q

Max(a, b) == IF a >= b THEN a ELSE b

Min(a, b) == IF a <= b THEN a ELSE b

\* a clamp whose lower bound is applied first: min(200, max(20, x)) with
\* the bounds swapped
TimePerWordSwapped(start, end, n) ==
    Min(20, Max(200, QuotientCs(start, end, n)))

\* time_per_word_cs = max(20, min(200, time_per_word_cs))
TimePerWord(start, end, n) == Max(20, Min(200, QuotientCs(start, end, n)))

\* '%05.2f' of seconds % 60 with the hours and the minutes, for times that
\* are whole centiseconds
format_time_ass(ms) ==
    [hours |-> ms \div 3600000, minutes |-> (ms % 3600000) \div 60000,
     centiseconds |-> (ms % 60000) \div 10]

\* the Dialogue line of a cue with words: each word preceded by {\k<cs>}
Dialogue(subtitle, words) ==
    [start |-> format_time_ass(subtitle.start),
     end |-> format_time_ass(subtitle.end),
     karaoke |-> [i \in 1..Len(words) |->
                    [k |-> TimePerWord(subtitle.start, subtitle.end,
                                       Len(words)),
                     word |-> words[i]]]]

\* a loop that writes a line for a cue without words too
RECURSIVE DialogueLinesAll(_)
DialogueLinesAll(data) ==
    IF data = <<>> THEN <<>>
    ELSE <<Dialogue(Head(data),
                    IF split(Head(data).text) = <<>> THEN <<<<"a">>>>
                    ELSE split(Head(data).text))>>
         \o DialogueLinesAll(Tail(data))

\* for subtitle in subtitles_data: ... if not words: continue
RECURSIVE DialogueLines(_)
DialogueLines(data) ==
    IF data = <<>> THEN <<>>
    ELSE LET words == split(Head(data).text)
         IN IF words = <<>> THEN DialogueLines(Tail(data))
            ELSE <<Dialogue(Head(data), words)>> \o DialogueLines(Tail(data))

NotWritten == <<[written |-> FALSE]>>

\* one call of create_ass_karaoke_subtitles
create_ass_karaoke_subtitles ==
    /\ ass_content = NotWritten
    /\ \E n \in 1..MaxCues : \E data \in [1..n -> Cues] :
         /\ subtitles_data' = data
         /\ ass_content' = DialogueLines(data)
    /\ UNCHANGED geq
    /\ UNCHANGED <<localVars, writer>>
    /\ UNCHANGED avatarVars

(***************************************************************************)
(* The alpha expression of the geq filter of process_circle_video.  W / 2  *)
(* and H / 2 are halves of integers: all terms are taken times four.       *)
(***************************************************************************)
\* largest width and height of the plane the expression is evaluated on
MaxSide == 6

\* pow(X-W/2,2)+pow(Y-H/2,2), times four
Distance2(X, Y, W, H) == (2 * X - W) * (2 * X - W) + (2 * Y - H) * (2 * Y - H)

\* pow(min(W,H)/2,2), times four
Radius2(W, H) == Min(W, H) * Min(W, H)

\* the expression with lt in the place of lte
AlphaStrict(X, Y, W, H) ==
    IF Distance2(X, Y, W, H) < Radius2(W, H) THEN 255 ELSE 0

\* a='if(lte(pow(X-W/2,2)+pow(Y-H/2,2),pow(min(W,H)/2,2)),255,0)'
Alpha(X, Y, W, H) ==
    IF Distance2(X, Y, W, H) <= Radius2(W, H) THEN 255 ELSE 0

\* one evaluation of the expression, at one pixel of a W x H plane
geq_alpha ==
    /\ ~geq.evaluated
    /\ \E W \in 1..MaxSide, H \in 1..MaxSide :
       \E X \in 0..(W - 1), Y \in 0..(H - 1) :
         geq' = [evaluated |-> TRUE, W |-> W, H |-> H, X |-> X, Y |-> Y,
                 a |-> Alpha(X, Y, W, H)]
    /\ UNCHANGED <<subtitles_data, ass_content>>
    /\ UNCHANGED <<localVars, writer>>
    /\ UNCHANGED avatarVars

InitFunctions ==
    /\ subtitles_data = <<>>
    /\ ass_content = NotWritten
    /\ geq = [evaluated |-> FALSE]

Init == InitLocal /\ InitAvatar /\ InitStore /\ InitFunctions

Next ==
    \E j \in VideoIds :
        \/ merge_videos_endpoint(j)
        \/ enqueue_task(j)
        \/ delete_video_task(j)
        \/ process_video(j)
        \/ process_task_start(j)
        \/ download_music(j)
        \/ merge_videos(j)
        \/ download_video(j)
        \/ downloads_done(j)
        \/ write_concat_list(j)
        \/ concat(j)
        \/ create_subtitles(j)
        \/ burn_subtitles(j)
        \/ get_video_info(j)
        \/ prepare_audio(j)
        \/ final_mux(j)
        \/ final_copy(j)
        \/ process_circle_video(j)
        \/ download_background(j)
        \/ download_circle(j)
        \/ circle_info(j)
        \/ composite(j)
        \/ process_overlay_video(j)
        \/ store_output(j)
        \/ upload_file(j)
        \/ complete_task(j)

Spec == Init /\ [][Next]_vars

NextAvatar ==
    \/ \E m \in MotionIds : request_motion_generation(m)
    \/ \E m \in MotionIds : create_motion_cache(m)
    \/ \E payload \in Payloads : handle_callback(payload)
    \/ \E g \in MontageIds : create_montage(g)
    \/ \E g \in MontageIds : monitor_montage_task(g)
    \/ \E g \in MontageIds : monitor_timeout(g)

\* the avatar service takes its steps in this specification, the workers in Spec
SpecAvatar == Init /\ [][NextAvatar]_vars

\* the motion endpoints and the webhook alone
NextMotion ==
    \/ \E m \in MotionIds : create_motion_cache_existing(m)
    \/ \E m \in MotionIds : create_motion_cache_not_found(m)
    \/ \E m \in MotionIds : create_motion_cache_mock(m)
    \/ \E m \in MotionIds : request_motion_generation_failed(m)
    \/ \E m \in MotionIds : request_motion_generation(m)
    \/ \E m \in MotionIds : create_motion_cache(m)
    \/ \E payload \in Payloads : handle_callback(payload)

SpecMotion == Init /\ [][NextMotion]_vars

\* the callers of update_status alone
NextStore ==
    \/ \E task_id \in FullIds : set_initial_status(task_id)
    \/ \E w \in Writers : update_status_get(w)
    \/ \E w \in Writers : update_status_set(w)

SpecStore == Init /\ [][NextStore]_vars

\* the functions checked on their own
NextFunctions ==
    \/ create_ass_karaoke_subtitles

SpecFunctions == Init /\ [][NextFunctions]_vars

\* the mask expression, pixel by pixel
NextMask ==
    \/ geq_alpha

SpecMask == Init /\ [][NextMask]_vars

\* The event loop and the Celery worker run every started coroutine and
\* every delivered task on to its end: a step that can be taken is taken.
FairSpec == Spec /\ WF_vars(Next)


(***************************************************************************)
(* Properties of the worker runs (specification Spec).                     *)
(***************************************************************************)
\* what a read of the status of job j returns from a store; None when the
\* store holds no status for j
StatusOf(store, j) ==
    IF j \in DOMAIN store /\ "status" \in DOMAIN store[j]
    THEN store[j].status ELSE None

ProgressOf(store, j) ==
    IF j \in DOMAIN store /\ "progress" \in DOMAIN store[j]
    THEN store[j].progress ELSE 0

\* the first status of a record is processing, processing is followed by
\* completed or failed, and a completed or failed record keeps its status
OneWay(old, new) ==
    \/ new = None
    \/ new = old
    \/ old = None /\ new = "processing"
    \/ old = "processing" /\ new \in Terminal

\* C1: the status of a job's record only moves from processing to
\* completed or from processing to failed, and no write changes the status
\* of a completed or failed record; for the records of process_video
\* (video_tasks) and of the _process_*_async runs (redis).
C1_OneWayStatus ==
    [][\A j \in VideoIds :
         /\ OneWay(StatusOf(video_tasks, j), StatusOf(video_tasks', j))
         /\ OneWay(StatusOf(redis, j), StatusOf(redis', j))]_vars

\* a run of _process_*_async and a run of process_video have ended, one
\* with a completed record and one with a failed record
C1_Witness ==
    \E j, k \in VideoIds :
        /\ worker[j].pc \in Ended /\ worker[j].kind # "app"
        /\ StatusOf(redis, j) = "completed"
        /\ worker[k].pc \in Ended /\ worker[k].kind = "app"
        /\ StatusOf(video_tasks, k) = "failed"

\* C5: when a worker run has ended, on any exit path, the job's working
\* directory is gone with everything in it.
C5_DirRemovedAtExit ==
    \A j \in VideoIds : worker[j].pc \in Ended => work_dir[j] = NoDir

\* C6: when a worker run has ended, normally or by exception, the job's
\* record is not in processing.
C6_NotLeftProcessing ==
    \A j \in VideoIds :
        worker[j].pc \in Ended =>
            /\ StatusOf(video_tasks, j) # "processing"
            /\ StatusOf(redis, j) # "processing"

\* C7: between two reads of a record that both return status processing,
\* progress does not decrease.
C7_ProgressMonotonic ==
    [][\A j \in VideoIds :
         /\ (StatusOf(video_tasks, j) = "processing"
             /\ StatusOf(video_tasks', j) = "processing")
            => ProgressOf(video_tasks', j) >= ProgressOf(video_tasks, j)
         /\ (StatusOf(redis, j) = "processing"
             /\ StatusOf(redis', j) = "processing")
            => ProgressOf(redis', j) >= ProgressOf(redis, j)]_vars

\* a merge_videos run reported its last checkpoint and the record is still
\* in processing
C7_Witness ==
    \E j \in VideoIds :
        \/ /\ StatusOf(redis, j) = "processing"
           /\ ProgressOf(redis, j) = 95
        \/ /\ StatusOf(video_tasks, j) = "processing"
           /\ ProgressOf(video_tasks, j) = 95

\* C8: a job of which at least one source was fetched does not fail because
\* of a source that was not: its run does not end in the download loop.
C8_PartialDownloadTolerated ==
    \A j \in VideoIds :
        (worker[j].pc \in Ended /\ worker[j].downloaded_videos # <<>>)
            => worker[j].failed_at # "download"

\* the source files a run has fetched into its working directory
FetchedFiles(j) == {f \in work_dir[j].files : f.name = "video"}

\* C9: the concat list names the fetched source files in the order of the
\* request's video_urls (source i before source k whenever i < k), and each
\* fetched source once.
C9_ConcatListInCallerOrder ==
    \A j \in VideoIds :
        LET concat_list == worker[j].concat_list
        IN /\ \A a, b \in DOMAIN concat_list :
                a < b => concat_list[a].n < concat_list[b].n
           /\ (concat_list # <<>> /\ work_dir[j].exists)
                => Range(concat_list) = FetchedFiles(j)

\* the concat list of a request of two sources is written, both fetched
C9_Witness ==
    \E j \in VideoIds :
        /\ worker[j].pc = "concat"
        /\ Len(worker[j].concat_list) = 2
        /\ work_dir[j].exists

\* the message with which each stage of the local pipeline fails
StageErrors(st) ==
    CASE st = "sources" -> {"No videos were downloaded successfully"}
      [] st = "concat" -> {"Error merging videos"}
      [] st = "audio" -> {"Error preparing audio"}
      [] st \in {"mux", "copy"} -> {"Error creating final video"}
      [] st = "composite" -> {"FFmpeg conversion failed"}
      [] st = "store" -> {"move failed", "upload failed"}
      [] OTHER -> {}

\* C10: after a stage of the local pipeline failed, the run has ended in
\* that stage (no later stage ran), and the job's record is failed with an
\* error message that ends in the message of the failing stage.
C10_StageFailureMarksFailed ==
    \A j \in VideoIds :
        worker[j].failed_at # None =>
            /\ worker[j].pc \in Ended
            /\ worker[j].stage = worker[j].failed_at
            /\ HasRecord(j) =>
                 /\ "status" \in DOMAIN Record(j)
                 /\ Record(j).status = "failed"
                 /\ StageErrors(worker[j].failed_at) # {} =>
                        CauseOf(Record(j).error_message)
                            \in StageErrors(worker[j].failed_at)

\* runs failed in the concat command and in the upload, and their records
\* are failed
C10_Witness ==
    \E j, k \in VideoIds :
        /\ worker[j].failed_at = "concat" /\ HasRecord(j)
        /\ worker[k].failed_at = "store" /\ HasRecord(k)

(***************************************************************************)
(* Properties of the avatar service (specification SpecAvatar).            *)
(***************************************************************************)
\* C2: a motion_cache record that is success or failed keeps its status,
\* motion_video_url and error_log whatever notice arrives for its taskId.
C2_TerminalRecordIgnoresNotices ==
    [][\A m \in DOMAIN motion_cache :
         (motion_cache[m].status \in {"success", "failed"}
          /\ m \in DOMAIN motion_cache')
            => /\ motion_cache'[m].status = motion_cache[m].status
               /\ motion_cache'[m].motion_video_url
                    = motion_cache[m].motion_video_url
               /\ motion_cache'[m].error_log = motion_cache[m].error_log]_vars

\* C3: a record the webhook has set to success is the same record, status
\* and result, after every step of the monitor, also of a monitor that
\* polls the external id of that record.
C3_MonitorKeepsWebhookResult ==
    [][\A m \in DOMAIN motion_cache :
         (motion_cache[m].status = "success" /\ monitor' # monitor)
            => /\ m \in DOMAIN motion_cache'
               /\ motion_cache'[m] = motion_cache[m]]_vars

\* the webhook set a record to success, and the monitor of a montage built
\* from it polled that record's external id and wrote its result
C3_Witness ==
    \E m \in DOMAIN motion_cache, g \in DOMAIN final_montages :
        /\ motion_cache[m].status = "success"
        /\ final_montages[g].motion_id = m
        /\ monitor[g].pc = "returned"
        /\ monitor[g].video_id = motion_cache[m].external_job_id
        /\ final_montages[g].status = "ready"

C11_BurnFailureContinues ==
    \A j \in VideoIds :
        /\ worker[j].failed_at # "burn"
        /\ worker[j].subtitle_burn = "failed" =>
              /\ worker[j].current_video = "merged_base.mp4"
              /\ worker[j].pc \in {"probe", "audio", "mux", "copy", "store",
                                   "complete"} \cup Ended

\* a job whose burn-in failed is completed, its output built from
\* merged_base.mp4
C11_Witness ==
    \E j \in VideoIds :
        /\ worker[j].subtitle_burn = "failed"
        /\ worker[j].current_video = "merged_base.mp4"
        /\ worker[j].pc = "returned"
        /\ HasRecord(j)
        /\ Record(j).status = "completed"

\* a merge request of two sources without music and without subtitles
PlainMerge(j) ==
    /\ worker[j].kind \in {"app", "merge"}
    /\ req[j].n_urls = 2
    /\ ~req[j].music
    /\ ~req[j].subtitles

\* what the subtitle stage and the audio stage leave in the working directory
StageArtifacts ==
    {F("subtitles.srt"), F("subtitles.ass"), F("video_with_subtitles.mp4"),
     F("music"), F("prepared_audio.mp3")}

\* what holds of such a job in every state
PlainMergeInvariant(j) ==
    PlainMerge(j) =>
        /\ worker[j].pc \notin {"music", "subtitles", "burn", "probe",
                                "audio", "mux"}
        /\ work_dir[j].files \cap StageArtifacts = {}
        /\ worker[j].subtitle_burn = None
        /\ worker[j].output_file # None =>
             /\ worker[j].current_video = "merged_base.mp4"
             /\ worker[j].output_file = req[j].output_filename
        /\ (worker[j].pc = "returned" /\ worker[j].failed_at = None
            /\ HasRecord(j)) =>
             /\ Record(j).status = "completed"
             /\ Record(j).download_url # None
             /\ Record(j).progress = 100

\* C12: a merge job of two sources without music and without subtitles
\* never enters the subtitle stage or the audio stage and never has one of
\* their files in its working directory; its output is made by the copy
\* command from merged_base.mp4; its run ends; and when the run has ended
\* with no stage failed, the record is completed with a download_url.
C12_PlainMergeSkipsStages ==
    /\ [](\A j \in VideoIds : PlainMergeInvariant(j))
    /\ \A j \in VideoIds :
         (PlainMerge(j) /\ worker[j].pc = "queued")
            ~> (worker[j].pc \in Ended)

\* such a job of process_video is completed and its output is in
\* PERSISTENT_DIR
C12_Witness ==
    \E j \in VideoIds :
        /\ PlainMerge(j)
        /\ worker[j].kind = "app"
        /\ worker[j].pc = "returned"
        /\ j \in DOMAIN video_tasks
        /\ video_tasks[j].status = "completed"
        /\ req[j].output_filename \in DOMAIN persistent_dir

(***************************************************************************)
(* Further properties of the avatar service (specification SpecAvatar).    *)
(***************************************************************************)
\* C13: the monitor never makes more than max_retries polls, and when it
\* has finalized a montage by timeout it has made exactly max_retries polls
\* and slept POLL_INTERVAL seconds after each of them.
C13_TimeoutAfterAllPolls ==
    \A g \in MontageIds :
        /\ monitor[g].attempts <= max_retries
        /\ monitor[g].elapsed <= monitor[g].attempts * POLL_INTERVAL
        /\ monitor[g].result = "timeout" =>
             /\ monitor[g].attempts = max_retries
             /\ monitor[g].elapsed = max_retries * POLL_INTERVAL
             /\ g \in DOMAIN final_montages
             /\ final_montages[g].status = "error"
             /\ final_montages[g].settings = "Timeout waiting for montage"

\* the remote status was processing in the last poll and the monitor has
\* finalized the montage by timeout
C13_Witness ==
    \E g \in MontageIds :
        /\ monitor[g].result = "timeout"
        /\ monitor[g].poll = "processing"
        /\ monitor[g].pc = "returned"

\* C14: after a poll that observed the remote status failed, the monitor
\* has returned without another poll, having made no download and no
\* upload, and the montage is error with the error_message of the status
\* response as its error text.
C14_RemoteFailedFinalizes ==
    \A g \in MontageIds :
        monitor[g].poll = "failed" =>
            /\ monitor[g].pc = "returned"
            /\ monitor[g].result = "error"
            /\ ~monitor[g].download
            /\ ~monitor[g].upload
            /\ g \in DOMAIN final_montages
            /\ final_montages[g].status = "error"
            /\ final_montages[g].final_video_url = None
            /\ monitor[g].error_message # None =>
                 final_montages[g].settings = monitor[g].error_message

\* the second poll observed failed with an error_message
C14_Witness ==
    \E g \in MontageIds :
        /\ monitor[g].poll = "failed"
        /\ monitor[g].error_message = "render failed"
        /\ monitor[g].attempts = 2

\* polls after which the loop goes on: the request raised, the answer was
\* not 200, the remote status is not completed or failed
RetriedPolls == {"exception", "500", "processing"}

\* C15: a poll that raises, is answered other than 200 or reports a status
\* that is not completed or failed leaves final_montages as it is and the
\* monitor in its loop; and after such a poll, while fewer than max_retries
\* polls are made, the next step of the monitor is another poll and not the
\* timeout.
C15_PollRetried ==
    /\ [][\A g \in MontageIds :
            (monitor'[g].attempts = monitor[g].attempts + 1
             /\ monitor'[g].poll \in RetriedPolls)
               => /\ final_montages' = final_montages
                  /\ monitor'[g].pc = "polling"
                  /\ monitor'[g].result = None]_vars
    /\ [](\A g \in MontageIds :
            (monitor[g].pc = "polling" /\ monitor[g].poll \in RetriedPolls
             /\ monitor[g].attempts < max_retries)
               => /\ ENABLED monitor_montage_task(g)
                  /\ ~ENABLED monitor_timeout(g))

\* every poll but the last was retried, and the last one observed completed
\* and wrote ready
C15_Witness ==
    \E g \in MontageIds :
        /\ monitor[g].attempts = max_retries
        /\ monitor[g].poll = "completed"
        /\ monitor[g].result = "ready"
        /\ monitor[g].elapsed = (max_retries - 1) * POLL_INTERVAL

(***************************************************************************)
(* Properties of the motion endpoints and the webhook (SpecMotion).        *)
(***************************************************************************)
\* C16: every notice for a taskId the provider has returned finds a record
\* carrying that external_job_id: no update the webhook makes for such a
\* taskId matches no row.
C16_NoticeCorrelates == unmatched = {}

\* the success notices that carry a result URL
SuccessNotices ==
    {payload \in Payloads :
        /\ payload.code = 200 /\ payload.taskId # None
        /\ payload.state = "success"
        /\ payload.resultJson.resultUrls # <<>>}

\* C17: a success notice finalizes every record it correlates to with
\* status success and the first URL of resultUrls, whatever the thumbnail
\* block yields; and whenever such a record exists the handler can finish
\* with no thumbnail, leaving the record success with a null thumbnail.
C17_SuccessFinalizes ==
    /\ [][\A payload \in SuccessNotices :
            handle_callback(payload) =>
                \A m \in Matching(motion_cache, "external_job_id",
                                  payload.taskId) :
                    /\ motion_cache'[m].status = "success"
                    /\ motion_cache'[m].motion_video_url =
                            payload.resultJson.resultUrls[1]
                    /\ motion_cache'[m].motion_thumbnail_url
                            \in {None, "thumb"}]_vars
    /\ [](\A payload \in SuccessNotices :
            \A m \in Matching(motion_cache, "external_job_id",
                              payload.taskId) :
                ENABLED (/\ handle_callback(payload)
                         /\ motion_cache'[m].status = "success"
                         /\ motion_cache'[m].motion_video_url =
                                payload.resultJson.resultUrls[1]
                         /\ motion_cache'[m].motion_thumbnail_url = None))

\* a record finalized from a notice with two URLs whose thumbnail failed
C17_Witness ==
    \E m \in DOMAIN motion_cache :
        /\ motion_cache[m].status = "success"
        /\ motion_cache[m].motion_video_url = "u2"
        /\ motion_cache[m].motion_thumbnail_url = None

(***************************************************************************)
(* Properties of the status stores.                                        *)
(***************************************************************************)
\* C18: a record of the app's registry stays readable by id until it is
\* deleted on request: no step other than DELETE /video/{video_id} of that
\* id removes it, however many other jobs are enqueued.
C18_RecordKeptUntilDeleted ==
    [][\A j \in DOMAIN video_tasks :
            j \in DOMAIN video_tasks' \/ delete_video_task(j)]_vars

\* C19: a call of update_status on an existing record that no other call
\* changes between its get and its set is a field-wise update: afterwards
\* the record has the fields it had and those of the partial record, every
\* field of the partial record holds the new value, and every other field
\* holds its previous value.
C19_FieldWiseUpdate ==
    [][\A w \in Writers :
        (/\ writer[w].pc = "read"
         /\ writer[w].key \in DOMAIN redis
         /\ redis[writer[w].key] = writer[w].current
         /\ update_status_set(w))
        => LET old == redis[writer[w].key]
               new == redis'[writer[w].key]
               data == writer[w].data
           IN /\ DOMAIN new = (DOMAIN old) \cup (DOMAIN data)
              /\ \A f \in DOMAIN data : new[f] = data[f]
              /\ \A f \in (DOMAIN old) \ (DOMAIN data) : new[f] = old[f]]_vars

\* a finished call whose partial record changed a field of the record it
\* found and left other fields of it in place
C19_Witness ==
    \E w \in Writers :
        /\ writer[w].pc = "done"
        /\ writer[w].current # Missing
        /\ writer[w].key \in DOMAIN redis
        /\ redis[writer[w].key] = DictUpdate(writer[w].current, writer[w].data)
        /\ (DOMAIN writer[w].current) \ (DOMAIN writer[w].data) # {}
        /\ \E f \in (DOMAIN writer[w].data) \cap (DOMAIN writer[w].current) :
                writer[w].data[f] # writer[w].current[f]

\* two finished calls on one key that both found the record and passed
\* partial records with no field in common
DisjointCalls(w1, w2) ==
    /\ w1 # w2
    /\ writer[w1].pc = "done" /\ writer[w2].pc = "done"
    /\ writer[w1].key = writer[w2].key
    /\ writer[w1].current # Missing /\ writer[w2].current # Missing
    /\ (DOMAIN writer[w1].data) \cap (DOMAIN writer[w2].data) = {}

\* C20: when two calls of update_status on one key pass partial records
\* with no field in common, the record holds the fields of both once both
\* have finished, however their gets and sets interleave.
C20_ConcurrentCallsKeepFields ==
    \A w1, w2 \in Writers :
        DisjointCalls(w1, w2) =>
            \A f \in DOMAIN writer[w1].data :
                /\ f \in DOMAIN redis[writer[w1].key]
                /\ redis[writer[w1].key][f] = writer[w1].data[f]

(***************************************************************************)
(* Properties of the job record.                                           *)
(***************************************************************************)
\* C21: when POST /merge-videos returns the id, the record of the job is in
\* the registry with status processing and progress 0 and the worker has
\* not started; and as long as the worker has not started, a record that is
\* in the registry holds these values.
C21_CreatedAtEnqueue ==
    /\ [][\A j \in VideoIds :
            merge_videos_endpoint(j) =>
                /\ j \in DOMAIN video_tasks'
                /\ video_tasks'[j].status = "processing"
                /\ video_tasks'[j].progress = 0
                /\ worker'[j].pc = "queued"]_vars
    /\ [](\A j \in DOMAIN video_tasks :
            (worker[j].kind = "app" /\ worker[j].pc = "queued") =>
                /\ video_tasks[j].status = "processing"
                /\ video_tasks[j].progress = 0)

\* a job whose enqueue has returned and whose worker has not started
C21_Witness ==
    \E j \in DOMAIN video_tasks :
        /\ worker[j].kind = "app" /\ worker[j].pc = "queued"
        /\ video_tasks[j].status = "processing"
        /\ video_tasks[j].progress = 0

\* the fields of a record that locate the result
Locators == {"download_url", "object_name", "output_file", "result_url"}

StatusIn(rec, statuses) == "status" \in DOMAIN rec /\ rec.status \in statuses

\* the fields a record carries agree with its status
FieldsAgree(rec) ==
    /\ "completed_at" \in DOMAIN rec => StatusIn(rec, Terminal)
    /\ "error_message" \in DOMAIN rec => StatusIn(rec, {"failed"})
    /\ Locators \cap DOMAIN rec # {} => StatusIn(rec, {"completed"})

\* C22: in every state of every job record, completed_at is set only when
\* the status is completed or failed, error_message only when it is failed,
\* and a result locator only when it is completed.
C22_FieldsAgreeWithStatus ==
    /\ \A j \in DOMAIN video_tasks : FieldsAgree(video_tasks[j])
    /\ \A j \in DOMAIN redis : FieldsAgree(redis[j])

\* a failed record with its message next to a completed one with its
\* locator
C22_Witness ==
    /\ \E j \in DOMAIN redis :
            /\ StatusIn(redis[j], {"failed"})
            /\ "error_message" \in DOMAIN redis[j]
            /\ "completed_at" \in DOMAIN redis[j]
    /\ \E j \in DOMAIN video_tasks :
            /\ StatusIn(video_tasks[j], {"completed"})
            /\ "download_url" \in DOMAIN video_tasks[j]

(***************************************************************************)
(* Properties of create_ass_karaoke_subtitles (SpecFunctions).             *)
(***************************************************************************)
\* the cues of the call that have a character that is not whitespace
HasWord(subtitle) ==
    \E i \in DOMAIN subtitle.text : subtitle.text[i] \notin Whitespace

WordyCues == SelectSeq(subtitles_data, HasWord)

\* n times clamp(duration / n, 200, 2000), in milliseconds
ClampedTimesN(subtitle, n) ==
    Max(200 * n, Min(2000 * n, subtitle.end - subtitle.start))

Written == ass_content # NotWritten /\ Len(ass_content) = Len(WordyCues)

\* C23 as stated: for every cue with at least one word, the highlight
\* duration written for each word is clamp(cue_duration_ms / word_count,
\* 200, 2000) ms.
C23_ClampedQuotient ==
    Written =>
        \A c \in DOMAIN ass_content :
            LET n == Len(ass_content[c].karaoke)
            IN \A i \in 1..n :
                10 * ass_content[c].karaoke[i].k * n
                    = ClampedTimesN(WordyCues[c], n)

\* C23 as amended: for every cue with at least one word, the highlight
\* duration written is a whole number of centiseconds between 20 and 200,
\* the same for every word of the cue, at most clamp(cue_duration_ms /
\* word_count, 200, 2000) ms and at most 10 ms below it.
C23_ClampedToCentiseconds ==
    Written =>
        \A c \in DOMAIN ass_content :
            LET n == Len(ass_content[c].karaoke)
                k == ass_content[c].karaoke[1].k
            IN /\ n >= 1
               /\ \A i \in 1..n : ass_content[c].karaoke[i].k = k
               /\ k \in 20..200
               /\ 10 * k * n <= ClampedTimesN(WordyCues[c], n)
               /\ 10 * k * n >= ClampedTimesN(WordyCues[c], n) - 10 * n

\* a 1 s cue of three words, written with 33 centiseconds a word, next to a
\* 4 s cue of four words written with 100
C23_Witness ==
    /\ Written
    /\ \E c \in DOMAIN ass_content :
            /\ WordyCues[c].end - WordyCues[c].start = 1000
            /\ Len(ass_content[c].karaoke) = 3
            /\ ass_content[c].karaoke[3].k = 33
    /\ \E c \in DOMAIN ass_content :
            /\ WordyCues[c].end - WordyCues[c].start = 4000
            /\ Len(ass_content[c].karaoke) = 4
            /\ ass_content[c].karaoke[4].k = 100

\* the characters of the words of a dialogue line, in order
RECURSIVE Letters(_)
Letters(karaoke) ==
    IF karaoke = <<>> THEN <<>>
    ELSE Head(karaoke).word \o Letters(Tail(karaoke))

\* C24: the dialogue lines written are, in input order, one line for each
\* cue that has a character other than whitespace, with the times and the
\* words of that cue; a cue without one has no line.
C24_OneLinePerWordyCue ==
    ass_content # NotWritten =>
        /\ Len(ass_content) = Len(WordyCues)
        /\ \A c \in DOMAIN ass_content :
            /\ ass_content[c].start = format_time_ass(WordyCues[c].start)
            /\ ass_content[c].end = format_time_ass(WordyCues[c].end)
            /\ Len(ass_content[c].karaoke) >= 1
            /\ Letters(ass_content[c].karaoke)
                 = SelectSeq(WordyCues[c].text,
                             LAMBDA ch : ch \notin Whitespace)

\* a call with a whitespace-only cue before a cue with words, which wrote
\* one line
C24_Witness ==
    /\ ass_content # NotWritten
    /\ Len(subtitles_data) = 2
    /\ subtitles_data[1].text = <<"tab", " ">>
    /\ HasWord(subtitles_data[2])
    /\ Len(ass_content) = 1

(***************************************************************************)
(* Properties of the circular mask (SpecMask).                             *)
(***************************************************************************)
\* four times the squared distance of the evaluated pixel from (W/2, H/2),
\* less four times the squared radius min(W, H)/2
Excess ==
    (2 * geq.X - geq.W) * (2 * geq.X - geq.W)
    + (2 * geq.Y - geq.H) * (2 * geq.Y - geq.H)
    - (IF geq.W <= geq.H THEN geq.W * geq.W ELSE geq.H * geq.H)

\* C25: a pixel gets alpha 255 when its distance from the center is at
\* most the radius, a pixel exactly at the radius included, and alpha 0
\* when it is farther away.
C25_MaskInclusive ==
    geq.evaluated =>
        /\ Excess < 0 => geq.a = 255
        /\ Excess = 0 => geq.a = 255
        /\ Excess > 0 => geq.a = 0

\* a pixel exactly at the radius, inside the mask
C25_Witness == geq.evaluated /\ Excess = 0 /\ geq.a = 255

(***************************************************************************)
(* Properties of the circle overlay (Spec).                                *)
(***************************************************************************)
\* C26: the duration cap of the compositing command is the probed length of
\* the circle video and the output has that length, for a background longer
\* and for a background shorter than the circle video.
C26_OutputLastsAsCircle ==
    \A j \in VideoIds :
        LET d == worker[j].durations
        IN /\ "-t" \in DOMAIN d => d["-t"] = d["circle.mp4"]
           /\ "circle_video.mp4" \in DOMAIN d =>
                d["circle_video.mp4"] = d["circle.mp4"]

\* an output made from a background shorter than the circle video
C26_Witness ==
    \E j \in VideoIds :
        LET d == worker[j].durations
        IN /\ "circle_video.mp4" \in DOMAIN d
           /\ d["background.mp4"] < d["circle.mp4"]
           /\ d["circle_video.mp4"] = d["circle.mp4"]

(***************************************************************************)
(* Properties of the result of a job.                                      *)
(***************************************************************************)
\* C27, worker jobs: a record that reads completed carries progress 100 and
\* its locator, the file or object the locator names is in the persistent
\* directory or the bucket, and the run that wrote it failed at no stage:
\* a run whose move or upload fails does not write completed.
C27_CompletedWithResult ==
    /\ \A j \in DOMAIN video_tasks :
            StatusIn(video_tasks[j], {"completed"}) =>
                /\ video_tasks[j].progress = 100
                /\ "download_url" \in DOMAIN video_tasks[j]
                /\ video_tasks[j].download_url \in DOMAIN persistent_dir
                /\ worker[j].failed_at = None
    /\ \A j \in DOMAIN redis :
            StatusIn(redis[j], {"completed"}) =>
                /\ redis[j].progress = 100
                /\ "object_name" \in DOMAIN redis[j]
                /\ redis[j].object_name \in minio
                /\ "download_url" \in DOMAIN redis[j]
                /\ worker[j].failed_at = None

\* a completed record of the app next to a completed record in Redis
C27_Witness ==
    /\ \E j \in DOMAIN video_tasks : StatusIn(video_tasks[j], {"completed"})
    /\ \E j \in DOMAIN redis : StatusIn(redis[j], {"completed"})

\* The monitor's side of the same property, under SpecAvatar: a montage
\* that reads ready carries the URL of
\* the object its monitor uploaded, written in the round whose poll read
\* completed and whose download and upload succeeded.
MonitorReadyWithResult ==
    \A g \in DOMAIN final_montages :
        final_montages[g].status = "ready" =>
            /\ final_montages[g].final_video_url = FinalUrl(g)
            /\ monitor[g].stored
            /\ monitor[g].poll = "completed"

\* a run of process_video that moved its output and returned
CompletedRun(j) ==
    /\ worker[j].kind = "app"
    /\ worker[j].pc = "returned"
    /\ worker[j].stage = "store"
    /\ worker[j].failed_at = None

\* C28: the file behind the download_url of a job whose run completed is
\* the output that job produced, whatever jobs complete after it.
C28_LocatorKeepsOutput ==
    \A j \in VideoIds :
        CompletedRun(j) =>
            /\ worker[j].output_file \in DOMAIN persistent_dir
            /\ persistent_dir[worker[j].output_file] = j

(***************************************************************************)
(* Properties of the end of the monitor (SpecAvatar).                      *)
(***************************************************************************)
Running(g) == monitor[g].pc \in {"scheduled", "polling"}

\* C29: a started monitor makes at most max_retries polls and can always
\* take its next step, a poll or the timeout; it writes nothing to its
\* montage before it returns, and when it has returned it has made one
\* write, which left the montage ready or error: ready, the download
\* failure, the remote failure or the timeout.
C29_OneFinalWrite ==
    \A g \in MontageIds :
        /\ monitor[g].attempts <= max_retries
        /\ Running(g) =>
             /\ monitor[g].writes = 0
             /\ g \in DOMAIN final_montages
             /\ final_montages[g].status = "rendering"
             /\ ENABLED (monitor_montage_task(g) \/ monitor_timeout(g))
        /\ monitor[g].pc = "returned" =>
             /\ monitor[g].writes = 1
             /\ g \in DOMAIN final_montages
             /\ final_montages[g].status \in {"ready", "error"}
             /\ final_montages[g].status = "ready"
                    <=> monitor[g].result = "ready"
             /\ final_montages[g].status = "error" =>
                    final_montages[g].settings \in
                        {"Failed to download", "Unknown error",
                         "render failed", "Timeout waiting for montage"}

\* a monitor that returned by timeout after max_retries polls, with its
\* one write made
C29_Witness ==
    \E g \in MontageIds :
        /\ monitor[g].pc = "returned"
        /\ monitor[g].attempts = max_retries
        /\ monitor[g].result = "timeout"
        /\ monitor[g].writes = 1
        /\ final_montages[g].status = "error"

\* the last round of monitor g asked for the download and did not go on to
\* the upload: the download was not answered 200
DownloadFailed(g) ==
    /\ monitor[g].poll = "completed"
    /\ monitor[g].download
    /\ ~monitor[g].upload

\* C30: after a round in which the remote reported completed and the
\* download was not answered 200, the monitor has returned and its montage
\* is error with the download-failure reason; from then on the monitor
\* takes no step, so it neither polls nor downloads again, and the montage
\* keeps that status and reason.
C30_DownloadFailureFinal ==
    /\ [](\A g \in MontageIds :
            DownloadFailed(g) =>
                /\ monitor[g].pc = "returned"
                /\ monitor[g].writes = 1
                /\ final_montages[g].status = "error"
                /\ final_montages[g].settings = "Failed to download"
                /\ ~ENABLED monitor_montage_task(g)
                /\ ~ENABLED monitor_timeout(g))
    /\ [][\A g \in MontageIds :
            DownloadFailed(g) =>
                /\ monitor'[g] = monitor[g]
                /\ final_montages'[g] = final_montages[g]]_vars

\* a download answered other than 200 on a round after the first, the
\* montage error with the download-failure reason
C30_Witness ==
    \E g \in MontageIds :
        /\ DownloadFailed(g)
        /\ monitor[g].attempts > 1
        /\ monitor[g].attempts < max_retries
        /\ final_montages[g].settings = "Failed to download"

(***************************************************************************)
(* Properties of the dispatch of a montage (SpecAvatar).                   *)
(***************************************************************************)
\* the record of g holds the error request_montage_creation writes: status
\* error and no reason in settings
DispatchError(g) ==
    /\ g \in DOMAIN final_montages
    /\ final_montages[g].status = "error"
    /\ final_montages[g].settings = None

\* C31: a montage has a monitor exactly when the montage service answered
\* its request 200 with a video_id, and that monitor was scheduled once, in
\* the step that created the montage, with that video_id; after every other
\* answer the record is error and no monitor exists; no montage has the
\* error of the dispatch and a monitor.
C31_MonitorIffDispatched ==
    /\ [](\A g \in MontageIds :
            /\ g \in DOMAIN final_montages <=> monitor[g].dispatch # None
            /\ monitor[g].pc # "idle" <=> monitor[g].dispatch = "200"
            /\ monitor[g].pc # "idle" => monitor[g].video_id \in ExternalIds
            /\ monitor[g].dispatch \notin {None, "200"} =>
                 /\ DispatchError(g)
                 /\ monitor[g].writes = 0
                 /\ ~ENABLED monitor_montage_task(g)
                 /\ ~ENABLED monitor_timeout(g)
            /\ ~(DispatchError(g) /\ monitor[g].pc # "idle"))
    /\ [][\A g \in MontageIds :
            (monitor'[g].pc = "scheduled" /\ monitor[g].pc # "scheduled")
                => /\ g \notin DOMAIN final_montages
                   /\ monitor[g].pc = "idle"
                   /\ monitor'[g].dispatch = "200"
                   /\ final_montages'[g].status = "rendering"]_vars

\* a montage whose request the service answered 200 without a video_id:
\* error, with no monitor, after a motion was finalized by the webhook
C31_Witness ==
    \E g \in MontageIds :
        /\ monitor[g].dispatch = "no video_id"
        /\ DispatchError(g)
        /\ monitor[g].pc = "idle"
        /\ monitor[g].video_id = None

(***************************************************************************)
(* Further properties of the webhook (SpecMotion).                         *)
(***************************************************************************)
\* the accepted notices whose state is not success
FailureNotices ==
    {payload \in Payloads :
        /\ payload.code = 200 /\ payload.taskId # None
        /\ payload.state # "success"}

\* C32: every accepted notice whose state is not success, the state of a
\* job still in progress included, sets each record it correlates to to
\* failed with error_log = failMsg and leaves the other fields of the
\* record as they are; and the handler can take that step for every such
\* notice and record, whatever the status of the record.
C32_NonSuccessIsFailure ==
    /\ [][\A payload \in FailureNotices :
            handle_callback(payload) =>
                \A m \in Matching(motion_cache, "external_job_id",
                                  payload.taskId) :
                    motion_cache'[m] =
                        DictUpdate(motion_cache[m],
                            [status |-> "failed",
                             error_log |-> payload.failMsg])]_vars
    /\ [](\A payload \in FailureNotices :
            \A m \in Matching(motion_cache, "external_job_id",
                              payload.taskId) :
                ENABLED (/\ handle_callback(payload)
                         /\ motion_cache'[m].status = "failed"
                         /\ motion_cache'[m].error_log = payload.failMsg))
    /\ \E payload \in FailureNotices : payload.state \notin {"fail", "failed"}

\* a record that a notice had set to success, now failed with the failMsg
\* of a later notice and still holding its result URL
C32_Witness ==
    \E m \in DOMAIN motion_cache :
        /\ motion_cache[m].status = "failed"
        /\ motion_cache[m].error_log = "provider error"
        /\ motion_cache[m].motion_video_url # None

\* the notices the handler ignores: a code other than 200, no taskId, or
\* state success with resultJson absent, unparsable or without a result URL
IgnoredNotices ==
    {payload \in Payloads :
        \/ payload.code # 200
        \/ payload.taskId = None
        \/ /\ payload.state = "success"
           /\ VideoUrl(payload.resultJson) = None}

\* C33: the handler runs on every ignored notice, and no run of it on such
\* a notice changes motion_cache: every record, the one carrying the taskId
\* of the notice included, keeps its status and its other fields.
C33_IgnoredNoticeChangesNothing ==
    /\ \A payload \in IgnoredNotices :
        /\ ENABLED handle_callback(payload)
        /\ ~ENABLED (/\ handle_callback(payload)
                     /\ motion_cache' # motion_cache)
    /\ \A kind \in {"absent", "unparsable", "json"} :
        \E payload \in IgnoredNotices :
            /\ payload.code = 200 /\ payload.taskId # None
            /\ payload.resultJson.kind = kind
    /\ \E payload \in IgnoredNotices : payload.code # 200
    /\ \E payload \in IgnoredNotices : payload.taskId = None

\* a record in processing whose taskId a success notice without a result
\* URL and a notice with code 501 carry, the handler enabled on both
C33_Witness ==
    \E m \in DOMAIN motion_cache :
        /\ motion_cache[m].status = "processing"
        /\ \E payload \in IgnoredNotices :
            /\ payload.taskId = motion_cache[m].external_job_id
            /\ payload.code = 200
            /\ payload.resultJson.kind = "json"
            /\ ENABLED handle_callback(payload)
        /\ \E payload \in IgnoredNotices :
            /\ payload.taskId = motion_cache[m].external_job_id
            /\ payload.code # 200
            /\ ENABLED handle_callback(payload)

(***************************************************************************)
(* Properties of POST /motions (SpecMotion).                               *)
(***************************************************************************)
\* call m returned a success record it found, with no request and no insert
ReturnedExisting(m) ==
    /\ motion_call[m].existing
    /\ motion_call[m].requests = 0
    /\ motion_call[m].inserts = 0
    /\ motion_call[m].response \in MotionIds \ {m}
    /\ m \notin DOMAIN motion_cache
    /\ m \notin DOMAIN provider

\* call m sent one request and inserted one record, which carries the
\* taskId the provider returned
Dispatched(m) ==
    /\ ~motion_call[m].existing
    /\ motion_call[m].requests = 1
    /\ motion_call[m].inserts = 1
    /\ motion_call[m].response = m
    /\ m \in DOMAIN motion_cache
    /\ m \in DOMAIN provider
    /\ motion_cache[m].external_job_id = provider[m]

\* call m sent one request, which failed, and inserted nothing
DispatchFailed(m) ==
    /\ ~motion_call[m].existing
    /\ motion_call[m].requests = 1
    /\ motion_call[m].inserts = 0
    /\ motion_call[m].response \in {"502", "500"}
    /\ m \notin DOMAIN motion_cache
    /\ m \notin DOMAIN provider

\* call m answered 404: no request and no insert
NotFound(m) ==
    /\ ~motion_call[m].existing
    /\ motion_call[m].requests = 0
    /\ motion_call[m].inserts = 0
    /\ motion_call[m].response = "404"
    /\ m \notin DOMAIN motion_cache
    /\ m \notin DOMAIN provider

\* call m ran without an API key: no request, one record with a mock id
Mocked(m) ==
    /\ ~motion_call[m].existing
    /\ motion_call[m].requests = 0
    /\ motion_call[m].inserts = 1
    /\ motion_call[m].response = m
    /\ m \in DOMAIN motion_cache
    /\ m \notin DOMAIN provider
    /\ motion_cache[m].external_job_id = MockId(m)

ReturnedCalls == {m \in MotionIds : motion_call[m].pc = "returned"}

\* C34 as stated: a call that has returned either found a success record
\* and returned it with no request and no insert, or sent exactly one
\* request and then inserted exactly one record carrying the returned
\* taskId, or inserted none because the request failed.
C34_DispatchUnlessExisting ==
    \A m \in ReturnedCalls :
        ReturnedExisting(m) \/ Dispatched(m) \/ DispatchFailed(m)

\* the steps of a call: it takes the branch of the existing record exactly
\* when a success record exists, the record it returns is one of those and
\* nothing is written; a record is inserted with status processing
CallSteps ==
    \A m \in MotionIds :
        /\ (motion_call[m].pc = "idle" /\ motion_call'[m].pc # "idle")
            => /\ motion_call'[m].existing <=> Existing # {}
               /\ motion_call'[m].existing =>
                    /\ motion_call'[m].response \in Existing
                    /\ UNCHANGED <<motion_cache, provider>>
        /\ (m \notin DOMAIN motion_cache /\ m \in DOMAIN motion_cache')
            => /\ motion_cache'[m].status = "processing"
               /\ motion_cache'[m].motion_video_url = None
               /\ motion_call'[m].pc = "returned"

\* C34, amended: a call that has returned found a success record and
\* returned it with no request and no insert; or answered 404 for a missing
\* avatar or reference with no request and no insert; or sent exactly one
\* request and inserted exactly one processing record carrying the returned
\* taskId; or inserted none because the request failed; or, with no API
\* key, sent no request and inserted exactly one processing record with a
\* mock id.  The records of the table are those the calls inserted, one
\* each.
C34_DispatchOrMockUnlessExisting ==
    /\ [](\A m \in ReturnedCalls :
            \/ ReturnedExisting(m) \/ Dispatched(m) \/ DispatchFailed(m)
            \/ NotFound(m) \/ Mocked(m))
    /\ [](DOMAIN motion_cache
            = {m \in MotionIds : motion_call[m].inserts = 1})
    /\ [](\A m \in MotionIds : motion_call[m].pc = "awaited" =>
            /\ motion_call[m].requests = 1 /\ motion_call[m].inserts = 0
            /\ m \in DOMAIN provider /\ m \notin DOMAIN motion_cache)
    /\ [][CallSteps]_vars

\* the first call dispatched and inserted its record, a notice set it to
\* success, and the second call returned that record
C34_Witness ==
    \E m, x \in MotionIds :
        /\ motion_call[x].pc = "returned" /\ Dispatched(x)
        /\ motion_cache[x].status = "success"
        /\ motion_call[m].pc = "returned" /\ ReturnedExisting(m)
        /\ motion_call[m].response = x

(***************************************************************************)
(* Properties of the music and subtitle stages of merge_videos (Spec).     *)
(***************************************************************************)
\* the stages of the music branch of merge_videos
MixerStages == {"probe", "audio", "mux"}

\* C35: a run of _process_video_async is in the music branch of
\* merge_videos only with the downloaded music file in its task directory:
\* after a music download that was not answered 200, and so wrote no file,
\* the run takes the branch without music.
C35_MixerOnlyWithMusicFile ==
    \A j \in VideoIds :
        (/\ worker[j].kind = "merge"
         /\ worker[j].pc \in MixerStages
         /\ work_dir[j].exists)
            => F("music") \in work_dir[j].files

\* the subtitle tracks in the task directory of j
Tracks(j) == work_dir[j].files \cap {F("subtitles.srt"), F("subtitles.ass")}

\* the stages of merge_videos after the subtitle block, and its return
AfterSubtitleBlock == {"probe", "audio", "mux", "copy", "store", "complete"}

\* C36: a run of merge_videos without subtitles writes no track and runs no
\* burn-in pass.  A run with subtitles has at most the one track of its
\* mode, subtitles.ass in karaoke mode and subtitles.srt otherwise, written
\* in the one step of the subtitle stage; its burn-in pass runs once, after
\* that stage, with the filter of the mode (ass or subtitles); and it is
\* past the subtitle block only with that pass made.
C36_OneSubtitleMode ==
    /\ [](\A j \in VideoIds : worker[j].kind \in {"app", "merge"} =>
            /\ ~req[j].subtitles =>
                 /\ Tracks(j) = {}
                 /\ worker[j].subtitle_burn = None
                 /\ worker[j].subtitle_filter = None
                 /\ worker[j].pc \notin {"subtitles", "burn"}
            /\ req[j].subtitles =>
                 /\ Tracks(j) \subseteq
                      (IF req[j].karaoke_mode THEN {F("subtitles.ass")}
                       ELSE {F("subtitles.srt")})
                 /\ worker[j].pc = "burn" =>
                      /\ worker[j].subtitle_burn = None
                      /\ work_dir[j].exists => Tracks(j) # {}
                 /\ worker[j].subtitle_burn # None =>
                      worker[j].subtitle_filter =
                        (IF req[j].karaoke_mode THEN "ass" ELSE "subtitles")
                 /\ worker[j].subtitle_burn = None =>
                      worker[j].subtitle_filter = None
                 /\ worker[j].pc \in AfterSubtitleBlock =>
                      worker[j].subtitle_burn \in {"ok", "failed"})
    /\ [][\A j \in VideoIds :
            /\ worker'[j].subtitle_burn # worker[j].subtitle_burn =>
                 /\ worker[j].pc = "burn"
                 /\ worker[j].subtitle_burn = None
                 /\ worker'[j].pc \notin {"subtitles", "burn"}
            /\ (Tracks(j) = {} /\ work_dir'[j].files \cap
                    {F("subtitles.srt"), F("subtitles.ass")} # {}) =>
                 /\ worker[j].pc = "subtitles"
                 /\ worker'[j].pc = "burn"]_vars

\* a karaoke job past its burn-in pass, which ran with the ass filter on
\* the one track subtitles.ass
C36_Witness ==
    \E j \in VideoIds :
        /\ req[j].subtitles /\ req[j].karaoke_mode
        /\ Tracks(j) = {F("subtitles.ass")}
        /\ worker[j].subtitle_burn = "ok"
        /\ worker[j].subtitle_filter = "ass"
        /\ worker[j].pc \in AfterSubtitleBlock
====
